---------------------------- MODULE Spec2Model ----------------------------
(***************************************************************************)
(* A model of the Crop-Detection Flask application (src/app.py) and of its *)
(* database repair script (src/fix_db.py).                                 *)
(*                                                                         *)
(* The state is the SQLite database (one variable per table, plus the      *)
(* sqlite_sequence table that AUTOINCREMENT keeps), the uploads folder,    *)
(* the two global model objects, the wall clock, and the response to the   *)
(* most recent request.  There is one action per route handler.            *)
(*                                                                         *)
(* Text is modelled as a sequence of tokens (a token is a TLA+ string):    *)
(* operations that the code performs on text (strip, replace, split,       *)
(* lower, substring tests, basename) are computed on these sequences.      *)
(***************************************************************************)
EXTENDS Integers, Sequences, FiniteSets, TLC

---------------------------------------------------------------------------
(* Bounds of the model *)

\* the largest id AUTOINCREMENT hands out in table history
MaxHistoryId == 4
\* the same, where only /diagnose is served
MaxGateId == 2
\* how many ids AUTOINCREMENT hands out in the tables community_posts,
\* expert_tokens and verification_requests together
MaxCommunityIds == 5
\* how many runs of init_db / fix_database, after the first on a new
\* database, AUTOINCREMENT has ids for in table government_schemes
MaxSeedRuns == 2
\* the largest sum of the ids that AUTOINCREMENT hands out in the tables
\* expert_tokens and verification_requests while approvals are checked
MaxExpertIds == 6

\* the history ids handed out while the lookups of the dictionaries are checked
MaxLookupId == 2

---------------------------------------------------------------------------
(* Text helpers: Python's str operations on token sequences *)

\* the value None / SQL NULL in a text column
None == <<"<None>">>

Min(a, b) == IF a < b THEN a ELSE b

\* s.startswith(p)
StartsWith(s, p) ==
  /\ Len(p) <= Len(s)
  /\ SubSeq(s, 1, Len(p)) = p

\* the suffix of s from position i on
From(s, i) == SubSeq(s, i, Len(s))

\* the elements of a sequence
Range(s) == {s[i] : i \in 1..Len(s)}

\* `sub in s`
RECURSIVE Contains(_, _)
Contains(s, sub) ==
  IF Len(sub) > Len(s) THEN FALSE
  ELSE IF StartsWith(s, sub) THEN TRUE
  ELSE Contains(Tail(s), sub)

\* s.replace(old, ""): leftmost non-overlapping occurrences, one pass
RECURSIVE ReplaceWithEmpty(_, _)
ReplaceWithEmpty(s, old) ==
  IF s = <<>> THEN <<>>
  ELSE IF StartsWith(s, old) THEN ReplaceWithEmpty(From(s, Len(old) + 1), old)
  ELSE <<Head(s)>> \o ReplaceWithEmpty(Tail(s), old)

\* s.replace(old, new) for a one-token old
RECURSIVE ReplaceToken(_, _, _)
ReplaceToken(s, old, new) ==
  IF s = <<>> THEN <<>>
  ELSE <<IF Head(s) = old THEN new ELSE Head(s)>> \o ReplaceToken(Tail(s), old, new)

RECURSIVE LStrip(_, _)
LStrip(s, chars) ==
  IF s # <<>> /\ Head(s) \in chars THEN LStrip(Tail(s), chars) ELSE s

RECURSIVE RStrip(_, _)
RStrip(s, chars) ==
  IF s # <<>> /\ s[Len(s)] \in chars THEN RStrip(SubSeq(s, 1, Len(s) - 1), chars) ELSE s

\* s.strip(chars)
StripChars(s, chars) == RStrip(LStrip(s, chars), chars)

Whitespace == {" ", "\t", "\n"}

\* s.strip()
Strip(s) == StripChars(s, Whitespace)

\* the position of the last "/" of s, 0 when there is none
RECURSIVE LastSlash(_, _)
LastSlash(s, i) ==
  IF i = 0 THEN 0
  ELSE IF s[i] = "/" THEN i
  ELSE LastSlash(s, i - 1)

\* os.path.basename(p): what follows the last "/"
Basename(p) == From(p, LastSlash(p, Len(p)) + 1)

\* s.split('_')[0]
RECURSIVE FirstField(_)
FirstField(s) ==
  IF s = <<>> \/ Head(s) = "_" THEN <<>>
  ELSE <<Head(s)>> \o FirstField(Tail(s))

---------------------------------------------------------------------------
(* The clock: datetime.now().strftime in its two formats *)

\* strftime('%Y%m%d_%H%M%S') of the clock value c
FileStamp(c) ==
  <<"20261102_100001", "20261102_100002", "20261102_100003",
    "20261102_100004", "20261102_100005", "20261102_100006">>[c]

\* strftime('%Y-%m-%d %H:%M:%S') of the clock value c
RowStamp(c) ==
  <<"2026-11-02 10:00:01", "2026-11-02 10:00:02", "2026-11-02 10:00:03",
    "2026-11-02 10:00:04", "2026-11-02 10:00:05", "2026-11-02 10:00:06">>[c]

---------------------------------------------------------------------------
(* Static data of the program *)

class_labels ==
  <<
    <<"Apple", "_", "Apple", "_", "scab">>,
    <<"Apple", "_", "Black", "_", "rot">>,
    <<"Apple", "_", "Cedar", "_", "apple", "_", "rust">>,
    <<"Apple", "_", "healthy">>,
    <<"Blueberry", "_", "healthy">>,
    <<"Cherry", "_", "Powdery", "_", "mildew">>,
    <<"Cherry", "_", "healthy">>,
    <<"Corn", "_", "Cercospora", "_", "leaf", "_", "spot", "_", "Gray", "_", "leaf", "_", "spot">>,
    <<"Corn", "_", "Common", "_", "rust">>,
    <<"Corn", "_", "Northern", "_", "Leaf", "_", "Blight">>,
    <<"Corn", "_", "healthy">>,
    <<"Grape", "_", "Black", "_", "rot">>,
    <<"Grape", "_", "Esca", "_", "Black", "_", "Measles">>,
    <<"Grape", "_", "Leaf", "_", "blight">>,
    <<"Grape", "_", "healthy">>,
    <<"Orange", "_", "Haunglongbing", "_", "Citrus", "_", "greening">>,
    <<"Peach", "_", "Bacterial", "_", "spot">>,
    <<"Peach", "_", "healthy">>,
    <<"Pepper", "_", "bell", "_", "Bacterial", "_", "spot">>,
    <<"Pepper", "_", "bell", "_", "healthy">>,
    <<"Potato", "_", "Early", "_", "blight">>,
    <<"Potato", "_", "Late", "_", "blight">>,
    <<"Potato", "_", "healthy">>,
    <<"Raspberry", "_", "healthy">>,
    <<"Soybean", "_", "healthy">>,
    <<"Squash", "_", "Powdery", "_", "mildew">>,
    <<"Strawberry", "_", "Leaf", "_", "scorch">>,
    <<"Strawberry", "_", "healthy">>,
    <<"Tomato", "_", "Bacterial", "_", "spot">>,
    <<"Tomato", "_", "Early", "_", "blight">>,
    <<"Tomato", "_", "Late", "_", "blight">>,
    <<"Tomato", "_", "Leaf", "_", "Mold">>,
    <<"Tomato", "_", "Septoria", "_", "leaf", "_", "spot">>,
    <<"Tomato", "_", "Spider", "_", "mites", "_", "Two", "_", "spotted", "_", "spider", "_", "mite">>,
    <<"Tomato", "_", "Target", "_", "Spot">>,
    <<"Tomato", "_", "Tomato", "_", "Yellow", "_", "Leaf", "_", "Curl", "_", "Virus">>,
    <<"Tomato", "_", "Tomato", "_", "mosaic", "_", "virus">>,
    <<"Tomato", "_", "healthy">>
  >>

\* str.lower() of the tokens that class_labels uses
LowerTable ==
  ("Apple" :> "apple" @@ "Bacterial" :> "bacterial" @@ "Black" :> "black" @@
   "Blight" :> "blight" @@ "Blueberry" :> "blueberry" @@ "Cedar" :> "cedar" @@
   "Cercospora" :> "cercospora" @@ "Cherry" :> "cherry" @@ "Citrus" :> "citrus" @@
   "Common" :> "common" @@ "Corn" :> "corn" @@ "Curl" :> "curl" @@
   "Early" :> "early" @@ "Esca" :> "esca" @@ "Grape" :> "grape" @@
   "Gray" :> "gray" @@ "Haunglongbing" :> "haunglongbing" @@ "Late" :> "late" @@
   "Leaf" :> "leaf" @@ "Measles" :> "measles" @@ "Mold" :> "mold" @@
   "Northern" :> "northern" @@ "Orange" :> "orange" @@ "Peach" :> "peach" @@
   "Pepper" :> "pepper" @@ "Potato" :> "potato" @@ "Powdery" :> "powdery" @@
   "Raspberry" :> "raspberry" @@ "Septoria" :> "septoria" @@ "Soybean" :> "soybean" @@
   "Spider" :> "spider" @@ "Spot" :> "spot" @@ "Squash" :> "squash" @@
   "Strawberry" :> "strawberry" @@ "Target" :> "target" @@ "Tomato" :> "tomato" @@
   "Two" :> "two" @@ "Virus" :> "virus" @@ "Yellow" :> "yellow")

\* s.lower()
Lower(s) ==
  [i \in 1..Len(s) |-> IF s[i] \in DOMAIN LowerTable THEN LowerTable[s[i]] ELSE s[i]]

\* the values of class_labels with those of two neighbours exchanged
class_indices_exchanged ==
  <<0, 1, 2, 3, 4, 5, 6, 7, 8, 9, 10, 11, 12,
    13, 14, 15, 16, 17, 18, 19, 21, 20, 22, 23, 24, 25,
    26, 27, 28, 29, 30, 31, 32, 33, 34, 35, 36, 37>>

\* the values of class_labels, in the order of its keys
class_indices ==
  <<0, 1, 2, 3, 4, 5, 6, 7, 8, 9, 10, 11, 12,
    13, 14, 15, 16, 17, 18, 19, 20, 21, 22, 23, 24, 25,
    26, 27, 28, 29, 30, 31, 32, 33, 34, 35, 36, 37>>

\* the keys of disease_info, in the order of the source; the entry of a key
\* is named by its key
disease_info ==
  <<
    <<"Apple", "_", "Apple", "_", "scab">>,
    <<"Apple", "_", "Black", "_", "rot">>,
    <<"Apple", "_", "Cedar", "_", "apple", "_", "rust">>,
    <<"Blueberry", "_", "healthy">>,
    <<"Cherry", "_", "Powdery", "_", "mildew">>,
    <<"Cherry", "_", "healthy">>,
    <<"Corn", "_", "Cercospora", "_", "leaf", "_", "spot", "_", "Gray", "_", "leaf", "_", "spot">>,
    <<"Corn", "_", "Common", "_", "rust">>,
    <<"Corn", "_", "Northern", "_", "Leaf", "_", "Blight">>,
    <<"Corn", "_", "healthy">>,
    <<"Grape", "_", "Black", "_", "rot">>,
    <<"Grape", "_", "Esca", "_", "Black", "_", "Measles">>,
    <<"Grape", "_", "Leaf", "_", "blight">>,
    <<"Grape", "_", "healthy">>,
    <<"Orange", "_", "Haunglongbing", "_", "Citrus", "_", "greening">>,
    <<"Peach", "_", "Bacterial", "_", "spot">>,
    <<"Peach", "_", "healthy">>,
    <<"Pepper", "_", "bell", "_", "Bacterial", "_", "spot">>,
    <<"Pepper", "_", "bell", "_", "healthy">>,
    <<"Potato", "_", "Early", "_", "blight">>,
    <<"Potato", "_", "Late", "_", "blight">>,
    <<"Potato", "_", "healthy">>,
    <<"Raspberry", "_", "healthy">>,
    <<"Soybean", "_", "healthy">>,
    <<"Squash", "_", "Powdery", "_", "mildew">>,
    <<"Strawberry", "_", "Leaf", "_", "scorch">>,
    <<"Strawberry", "_", "healthy">>,
    <<"Tomato", "_", "Bacterial", "_", "spot">>,
    <<"Tomato", "_", "Early", "_", "blight">>,
    <<"Tomato", "_", "Late", "_", "blight">>,
    <<"Tomato", "_", "Leaf", "_", "Mold">>,
    <<"Tomato", "_", "Septoria", "_", "leaf", "_", "spot">>,
    <<"Tomato", "_", "Spider", "_", "mites", "_", "Two", "_", "spotted", "_", "spider", "_", "mite">>,
    <<"Tomato", "_", "Target", "_", "Spot">>,
    <<"Tomato", "_", "Tomato", "_", "Yellow", "_", "Leaf", "_", "Curl", "_", "Virus">>,
    <<"Tomato", "_", "Tomato", "_", "mosaic", "_", "virus">>,
    <<"healthy">>
  >>

\* the keys of the literal of treatment_suggestions_data
treatment_literal ==
  <<
    <<"Apple", "_", "Apple", "_", "scab">>,
    <<"Apple", "_", "Black", "_", "rot">>,
    <<"Apple", "_", "Cedar", "_", "apple", "_", "rust">>,
    <<"Blueberry", "_", "healthy">>,
    <<"Cherry", "_", "Powdery", "_", "mildew">>,
    <<"Cherry", "_", "healthy">>,
    <<"Corn", "_", "Cercospora", "_", "leaf", "_", "spot", "_", "Gray", "_", "leaf", "_", "spot">>,
    <<"Corn", "_", "Common", "_", "rust">>,
    <<"Corn", "_", "Northern", "_", "Leaf", "_", "Blight">>,
    <<"Corn", "_", "healthy">>,
    <<"Grape", "_", "Black", "_", "rot">>,
    <<"Grape", "_", "Esca", "_", "Black", "_", "Measles">>,
    <<"Grape", "_", "Leaf", "_", "blight">>,
    <<"Grape", "_", "healthy">>,
    <<"Orange", "_", "Haunglongbing", "_", "Citrus", "_", "greening">>,
    <<"Peach", "_", "Bacterial", "_", "spot">>,
    <<"Peach", "_", "healthy">>,
    <<"Pepper", "_", "bell", "_", "Bacterial", "_", "spot">>,
    <<"Pepper", "_", "bell", "_", "healthy">>,
    <<"Potato", "_", "Early", "_", "blight">>,
    <<"Potato", "_", "Late", "_", "blight">>,
    <<"Potato", "_", "healthy">>,
    <<"Raspberry", "_", "healthy">>,
    <<"Soybean", "_", "healthy">>,
    <<"Squash", "_", "Powdery", "_", "mildew">>,
    <<"Strawberry", "_", "Leaf", "_", "scorch">>,
    <<"Strawberry", "_", "healthy">>,
    <<"Tomato", "_", "Bacterial", "_", "spot">>,
    <<"Tomato", "_", "Early", "_", "blight">>,
    <<"Tomato", "_", "Late", "_", "blight">>,
    <<"Tomato", "_", "Leaf", "_", "Mold">>,
    <<"Tomato", "_", "Septoria", "_", "leaf", "_", "spot">>,
    <<"Tomato", "_", "Spider", "_", "mites", "_", "Two", "_", "spotted", "_", "spider", "_", "mite">>,
    <<"Tomato", "_", "Target", "_", "Spot">>,
    <<"Tomato", "_", "Tomato", "_", "Yellow", "_", "Leaf", "_", "Curl", "_", "Virus">>,
    <<"Tomato", "_", "Tomato", "_", "mosaic", "_", "virus">>,
    <<"healthy">>
  >>

\* treatment_suggestions_data after the loop that gives every key of
\* disease_info that holds 'healthy' the generic list when it has none: a
\* key of the literal names its own list, an added key the list of 'healthy'
treatment_suggestions_data ==
  LET added == IF <<"healthy">> \in Range(treatment_literal)
                 THEN {key \in Range(disease_info) :
                         /\ Contains(Lower(key), <<"healthy">>)
                         /\ key \notin Range(treatment_literal)}
                 ELSE {}
  IN  [key \in Range(treatment_literal) \cup added |->
         IF key \in Range(treatment_literal) THEN key ELSE <<"healthy">>]


\* the seed records of government_schemes (the same list in init_db and in
\* fix_database)
schemes_data ==
  <<
    [name |-> "Mission for Integrated Development of Horticulture (MIDH)",
     ministry |-> "Ministry of Agriculture",
     description |-> "Subsidy for planting material, greenhouses, and cold storage for fruit crops.",
     eligible_state |-> <<"All">>,
     eligible_crop |-> <<"Apple", ", ", "Grape", ", ", "Cherry", ", ", "Peach", ", ", "Strawberry">>,
     benefit |-> "40-50% Subsidy on Infrastructure",
     link |-> "https://midh.gov.in/",
     deadline |-> "2026-03-31"],
    [name |-> "Operation Greens (TOP Scheme)",
     ministry |-> "Ministry of Food Processing",
     description |-> "Price stabilization scheme specifically for Tomato, Onion, and Potato farmers.",
     eligible_state |-> <<"All">>,
     eligible_crop |-> <<"Tomato", ", ", "Potato">>,
     benefit |-> "50% Subsidy on Transport & Storage",
     link |-> "https://www.mofpi.gov.in/",
     deadline |-> "2026-12-31"],
    [name |-> "Pradhan Mantri Fasal Bima Yojana (PMFBY)",
     ministry |-> "Ministry of Agriculture",
     description |-> "Insurance against crop loss due to pests (like Late Blight) or weather.",
     eligible_state |-> <<"All">>,
     eligible_crop |-> <<"All">>,
     benefit |-> "Insurance Claim Settlement",
     link |-> "https://pmfby.gov.in/",
     deadline |-> "2026-07-31"],
    [name |-> "NFSM - Coarse Cereals (Maize)",
     ministry |-> "Ministry of Agriculture",
     description |-> "Support for improved seeds and technology demonstrations for Maize (Corn).",
     eligible_state |-> <<"All">>,
     eligible_crop |-> <<"Corn">>,
     benefit |-> "Free Hybrid Seeds & Field Demos",
     link |-> "https://nfsm.gov.in/",
     deadline |-> "2026-06-30"],
    [name |-> "High Density Apple Plantation Scheme",
     ministry |-> "Dept of Horticulture",
     description |-> "Special subsidy for high-density apple orchards to boost production.",
     eligible_state |-> <<"Jammu and Kashmir", ", ", "Himachal Pradesh", ", ", "Uttarakhand">>,
     eligible_crop |-> <<"Apple">>,
     benefit |-> "50% Subsidy on Plant Material",
     link |-> "https://dirhortijmu.nic.in/",
     deadline |-> "2026-10-15"],
    [name |-> "Citrus Development Programme",
     ministry |-> "National Horticulture Board",
     description |-> "Rejuvenation of old orchards and new plantation support for Citrus fruits.",
     eligible_state |-> <<"Punjab", ", ", "Haryana", ", ", "Rajasthan">>,
     eligible_crop |-> <<"Orange">>,
     benefit |-> "Credit linked subsidy up to 40%",
     link |-> "https://nhb.gov.in/",
     deadline |-> "2026-09-15"],
    [name |-> "Drip Irrigation Subsidy (PMKSY)",
     ministry |-> "Ministry of Jal Shakti",
     description |-> "Massive subsidy for installing drip irrigation systems in water-scarce regions.",
     eligible_state |-> <<"Tamil Nadu", ", ", "Karnataka", ", ", "Andhra Pradesh", ", ", "Telangana">>,
     eligible_crop |-> <<"All">>,
     benefit |-> "75-100% Subsidy for Small Farmers",
     link |-> "https://pmksy.gov.in/",
     deadline |-> "2026-05-20"],
    [name |-> "Coconut Development Board Scheme",
     ministry |-> "Ministry of Agriculture",
     description |-> "Assistance for expansion of area under coconut and replanting.",
     eligible_state |-> <<"Kerala", ", ", "Tamil Nadu", ", ", "Karnataka", ", ", "Goa">>,
     eligible_crop |-> <<"Coconut">>,
     benefit |-> "₹17,500 per hectare",
     link |-> "https://www.coconutboard.gov.in/",
     deadline |-> "2026-08-10"],
    [name |-> "NFSM - Oilseeds & Soybean",
     ministry |-> "Ministry of Agriculture",
     description |-> "Incentives for increasing oilseed production including Soybean.",
     eligible_state |-> <<"Madhya Pradesh", ", ", "Maharashtra", ", ", "Gujarat">>,
     eligible_crop |-> <<"Soybean">>,
     benefit |-> "₹4000/quintal subsidy on seeds",
     link |-> "https://nfsm.gov.in/",
     deadline |-> "2026-05-20"],
    [name |-> "Onion Storage Structure Scheme",
     ministry |-> "Maharashtra Dept of Agriculture",
     description |-> "Subsidy for constructing \"Kanda Chawl\" (Onion Storage) to prevent rotting.",
     eligible_state |-> <<"Maharashtra", ", ", "Gujarat">>,
     eligible_crop |-> <<"Onion">>,
     benefit |-> "₹87,500 per unit subsidy",
     link |-> "https://krishi.maharashtra.gov.in/",
     deadline |-> "2026-04-01"],
    [name |-> "BGREI - Rice & Veg Program",
     ministry |-> "Ministry of Agriculture",
     description |-> "Bringing Green Revolution to Eastern India - Tech support for rice and vegetables.",
     eligible_state |-> <<"West Bengal", ", ", "Bihar", ", ", "Odisha", ", ", "Assam">>,
     eligible_crop |-> <<"Rice", ", ", "Tomato", ", ", "Potato">>,
     benefit |-> "Free Seeds & Tech Support",
     link |-> "https://rkvy.nic.in/",
     deadline |-> "2026-06-15"],
    [name |-> "Organic Farming Mission (MOVCDNER)",
     ministry |-> "Ministry of Agriculture",
     description |-> "Promoting organic farming certification and value chains.",
     eligible_state |-> <<"Sikkim", ", ", "Assam", ", ", "Arunachal Pradesh", ", ", "Nagaland", ", ", "Manipur", ", ", "Mizoram", ", ", "Tripura", ", ", "Meghalaya">>,
     eligible_crop |-> <<"All">>,
     benefit |-> "₹50,000 per hectare for 3 years",
     link |-> "https://pgsindia-ncof.gov.in/",
     deadline |-> "2026-11-30"]
  >>

---------------------------------------------------------------------------
(* The state *)

VARIABLES
  history,                \* table history: a sequence of rows, in rowid order
  feedback,               \* table feedback
  settings,               \* table settings: key -> value
  community_posts,        \* table community_posts
  expert_tokens,          \* table expert_tokens
  verification_requests,  \* table verification_requests
  government_schemes,     \* table government_schemes
  sqlite_sequence,        \* table name -> the largest id AUTOINCREMENT has used
  uploads,                \* the uploads folder: file name -> contents
  disease_model,          \* the global disease_model
  gatekeeper_model,       \* the global gatekeeper_model
  clock,                  \* the wall clock, in seconds
  response                \* the response to the most recent request

tables == <<history, feedback, settings, community_posts, expert_tokens,
            verification_requests, government_schemes, sqlite_sequence>>

models == <<disease_model, gatekeeper_model>>

vars == <<history, feedback, settings, community_posts, expert_tokens,
          verification_requests, government_schemes, sqlite_sequence,
          uploads, disease_model, gatekeeper_model, clock, response>>

\* every table but history
other_tables == <<feedback, settings, community_posts, expert_tokens,
                  verification_requests, government_schemes>>

---------------------------------------------------------------------------
(* The two Keras models and the images a client can upload.               *)
(* A model object is "None" (not loaded), "ok", or "faulty" (the object    *)
(* was loaded but its predict raises, as when the warm-up call failed).    *)
(* The contents of a file are [img, png]: which picture it is, and whether *)
(* apply_image_filters re-encoded it.  What a model answers for given      *)
(* bytes is fixed by the tables below.                                     *)

ModelFileStates == {"missing", "ok", "bad_file", "bad_warmup"}

\* load_models(): the globals it leaves and the value it returns, given
\* the state of models/my_model.keras and models/gatekeeper_model.keras
load_models(disease_file, gatekeeper_file) ==
  IF disease_file = "missing"
    THEN [disease_model |-> "None", gatekeeper_model |-> "None", ok |-> FALSE]
  ELSE IF disease_file = "bad_file"
    THEN [disease_model |-> "None", gatekeeper_model |-> "None", ok |-> FALSE]
  ELSE IF disease_file = "bad_warmup"
    THEN [disease_model |-> "faulty", gatekeeper_model |-> "None", ok |-> FALSE]
  ELSE IF gatekeeper_file = "missing"
    THEN [disease_model |-> "ok", gatekeeper_model |-> "None", ok |-> TRUE]
  ELSE IF gatekeeper_file = "bad_file"
    THEN [disease_model |-> "ok", gatekeeper_model |-> "None", ok |-> FALSE]
  ELSE IF gatekeeper_file = "bad_warmup"
    THEN [disease_model |-> "ok", gatekeeper_model |-> "faulty", ok |-> FALSE]
  ELSE [disease_model |-> "ok", gatekeeper_model |-> "ok", ok |-> TRUE]

Images == {"leaf", "edge", "junk", "corrupt"}

Bytes == [img : Images, png : BOOLEAN]

\* Image.open(...).convert("RGB") succeeds
Decodable(b) == b.img # "corrupt"

\* gatekeeper_model.predict(...)[0][0], in hundredths
GatekeeperOutput(b) ==
  IF b.png
    THEN ("leaf" :> 89 @@ "edge" :> 93 @@ "junk" :> 30)[b.img]
    ELSE ("leaf" :> 91 @@ "edge" :> 90 @@ "junk" :> 12)[b.img]

\* disease_model.predict(...): the arg-max class and the largest
\* probability times 100, in hundredths of a percent
DiseaseOutput(b) ==
  IF b.png
    THEN ("leaf" :> [idx |-> 1, confidence |-> 8880] @@
          "edge" :> [idx |-> 37, confidence |-> 4996] @@
          "junk" :> [idx |-> 33, confidence |-> 3120])[b.img]
    ELSE ("leaf" :> [idx |-> 1, confidence |-> 9734] @@
          "edge" :> [idx |-> 28, confidence |-> 6100] @@
          "junk" :> [idx |-> 33, confidence |-> 3120])[b.img]

\* the decimal numerals the model uses, by their value in tenths
DecimalText ==
  (973 :> "97.3" @@ 888 :> "88.8" @@ 725 :> "72.5" @@ 610 :> "61.0" @@
   500 :> "50.0" @@ 452 :> "45.2" @@ 312 :> "31.2" @@ 880 :> "88" @@
   125 :> "12.5")

\* f"{confidence:.1f}": confidence in hundredths, rounded to tenths
FormatOneDecimal(c) == <<DecimalText[(c + 5) \div 10]>>

\* float(s), in tenths; -1 stands for ValueError
ParseFloat(s) ==
  IF Len(s) = 1 /\ \E t \in DOMAIN DecimalText : DecimalText[t] = s[1]
    THEN CHOOSE t \in DOMAIN DecimalText : DecimalText[t] = s[1]
    ELSE -1

\* the threshold of verify_plant_ai, in hundredths (0.90)
GateThreshold == 90

\* is_plant with the comparison not strict
is_plant_not_strict(prediction) == prediction >= GateThreshold

\* is_plant = prediction > 0.90
is_plant(prediction) == prediction > GateThreshold

\* verify_plant_ai that rejects what it cannot check
verify_plant_ai_fails_closed(img_bytes) ==
  IF gatekeeper_model = "None" THEN FALSE
  ELSE IF ~Decodable(img_bytes) \/ gatekeeper_model = "faulty" THEN FALSE
  ELSE is_plant(GatekeeperOutput(img_bytes))

\* verify_plant_ai(img_bytes)
verify_plant_ai(img_bytes) ==
  IF gatekeeper_model = "None" THEN TRUE
  ELSE IF ~Decodable(img_bytes) \/ gatekeeper_model = "faulty" THEN TRUE
  ELSE is_plant(GatekeeperOutput(img_bytes))

\* a key that a dict does not hold
Absent == <<"<absent>">>

\* a dict without keys
NoDiagnosis ==
  [crop_type |-> Absent, disease_name |-> Absent, disease_key_for_lookup |-> Absent,
   confidence |-> Absent, note |-> Absent]

NoLog == [line |-> "", prediction |-> 0]

\* a response: the route, the HTTP status, the error message ("" when there
\* is none), the calls the handler made, the gatekeeper's log line, and the
\* payload
Response(route, status, error) ==
  [route |-> route, status |-> status, error |-> error, calls |-> <<>>,
   log |-> NoLog, image_filename |-> Absent, diagnosis |-> NoDiagnosis,
   body |-> <<>>]

\* the dict that diagnose_disease builds from the predicted class and the
\* confidence (in hundredths of a percent)
DiagnosisOf_note_of_rounded(idx, confidence) ==
  LET predicted_label == class_labels[idx + 1]
      healthy == Contains(Lower(predicted_label), <<"healthy">>)
  IN  [crop_type |-> FirstField(predicted_label),
       disease_name |-> IF healthy THEN <<"Healthy">>
                        ELSE ReplaceToken(predicted_label, "_", " "),
       disease_key_for_lookup |-> predicted_label,
       confidence |-> FormatOneDecimal(confidence) \o <<"%">>,
       note |-> IF (confidence + 5) \div 10 < 500 THEN <<"Low confidence.">>
                ELSE <<"">>]

DiagnosisOf(idx, confidence) ==
  LET predicted_label == class_labels[idx + 1]
      healthy == Contains(Lower(predicted_label), <<"healthy">>)
  IN  [crop_type |-> FirstField(predicted_label),
       disease_name |-> IF healthy THEN <<"Healthy">>
                        ELSE ReplaceToken(predicted_label, "_", " "),
       disease_key_for_lookup |-> predicted_label,
       confidence |-> FormatOneDecimal(confidence) \o <<"%">>,
       note |-> IF confidence < 5000 THEN <<"Low confidence.">> ELSE <<"">>]

\* DiagnosisOf on what the model answers, for every picture that decodes
DiagnosisTable ==
  [b \in {x \in Bytes : Decodable(x)} |->
     DiagnosisOf(DiseaseOutput(b).idx, DiseaseOutput(b).confidence)]

\* diagnose_disease(img_bytes): [error, result]; error is "" on success
diagnose_disease(img_bytes) ==
  IF disease_model = "None" THEN [error |-> "Model not loaded.", result |-> NoDiagnosis]
  ELSE IF ~Decodable(img_bytes) \/ disease_model = "faulty"
    THEN [error |-> "exception", result |-> NoDiagnosis]
  ELSE [error |-> "", result |-> DiagnosisTable[img_bytes]]

\* what the form of a /diagnose request holds: nothing, a filter that
\* applies, or a brightness that float() cannot read
Forms == {"none", "grayscale", "bad_brightness"}

\* the value None where bytes are expected
NoBytes == [img |-> "<None>", png |-> FALSE]

\* apply_image_filters(img_bytes, filters): the new bytes, or None
apply_image_filters(img_bytes, filters) ==
  IF ~Decodable(img_bytes) \/ filters = "bad_brightness" THEN NoBytes
  ELSE [img |-> img_bytes.img, png |-> TRUE]

\* the file names a client sends with an upload
ClientNames == {<<"my", "_", "leaf.jpg">>, <<"..", "/", "my", " ", "leaf.jpg">>}

\* runs of blanks become one blank
RECURSIVE SqueezeBlanks(_)
SqueezeBlanks(s) ==
  IF Len(s) < 2 THEN s
  ELSE IF s[1] = " " /\ s[2] = " " THEN SqueezeBlanks(Tail(s))
  ELSE <<Head(s)>> \o SqueezeBlanks(Tail(s))

\* werkzeug's secure_filename: path separators become blanks, the words are
\* joined with "_", and dots and underscores are stripped from both ends
secure_filename(name) ==
  LET spaced == ReplaceToken(name, "/", " ")
      joined == ReplaceToken(SqueezeBlanks(Strip(spaced)), " ", "_")
  IN  StripChars(joined, {".", "..", "_"})

---------------------------------------------------------------------------
(* JSON: a dict is a record whose missing keys hold Absent; its text is    *)
(* the sequence of its members <<key, literal>> in the order of the keys.  *)
(* A string value is a token sequence, a number is <<"#", numeral>>.       *)

DiagKeys == <<"crop_type", "disease_name", "disease_key_for_lookup", "confidence", "note">>

IsNumber(v) == v # <<>> /\ Head(v) = "#"

\* str(v)
PyStr(v) == IF IsNumber(v) THEN Tail(v) ELSE v

\* the JSON literal of a value
JsonLiteral(v) ==
  IF v = None THEN <<"null">>
  ELSE IF IsNumber(v) THEN Tail(v)
  ELSE <<"\"">> \o v \o <<"\"">>

\* the value of a JSON literal
JsonValue(lit) ==
  IF lit = <<"null">> THEN None
  ELSE IF Head(lit) = "\"" THEN SubSeq(lit, 2, Len(lit) - 1)
  ELSE <<"#">> \o lit

RECURSIVE DumpMembers(_, _)
DumpMembers(d, keys) ==
  IF keys = <<>> THEN <<>>
  ELSE (IF d[Head(keys)] = Absent THEN <<>>
        ELSE << <<Head(keys), JsonLiteral(d[Head(keys)])>> >>)
       \o DumpMembers(d, Tail(keys))

\* json.dumps(diag)
JsonDumps(d) == DumpMembers(d, DiagKeys)

\* the value that the text holds for key, Absent when it holds none (the
\* last member wins)
RECURSIVE MemberValue(_, _)
MemberValue(text, key) ==
  IF text = <<>> THEN Absent
  ELSE IF text[Len(text)][1] = key THEN JsonValue(text[Len(text)][2])
  ELSE MemberValue(SubSeq(text, 1, Len(text) - 1), key)

\* json.loads(text) of the text of a diagnosis
JsonLoads(text) ==
  [crop_type |-> MemberValue(text, "crop_type"),
   disease_name |-> MemberValue(text, "disease_name"),
   disease_key_for_lookup |-> MemberValue(text, "disease_key_for_lookup"),
   confidence |-> MemberValue(text, "confidence"),
   note |-> MemberValue(text, "note")]

---------------------------------------------------------------------------
(* SQLite helpers *)

TableNames == {"history", "feedback", "community_posts", "expert_tokens",
               "verification_requests", "government_schemes"}

\* a row without its id
NoId(row) == [f \in DOMAIN row \ {"id"} |-> row[f]]

\* the rows of a table without their ids, in order
Columns(rows) == [i \in 1..Len(rows) |-> NoId(rows[i])]

\* how many rows of the table have the columns c
Count(rows, c) == Cardinality({i \in 1..Len(rows) : NoId(rows[i]) = c})

\* the two tables hold the same multiset of rows, ids apart
SameRows(r1, r2) ==
  /\ Len(r1) = Len(r2)
  /\ \A i \in 1..Len(r1) : Count(r1, NoId(r1[i])) = Count(r2, NoId(r1[i]))

\* INSERT of the columns c into an AUTOINCREMENT table whose counter is seq
InsertRow(rows, seq, c) ==
  Append(rows, [f \in DOMAIN c \cup {"id"} |-> IF f = "id" THEN seq + 1 ELSE c[f]])

\* os.remove / open(path, 'wb') on the uploads folder
RemoveFile(folder, name) == [n \in DOMAIN folder \ {name} |-> folder[n]]

WriteFile(folder, name, contents) ==
  [n \in DOMAIN folder \cup {name} |-> IF n = name THEN contents ELSE folder[n]]

---------------------------------------------------------------------------
(* The database file that the application finds when it starts: a new one, *)
(* or one that earlier runs of the application have filled.                *)

\* text written letter by letter, where the code edits it letter by letter
DrDot == <<"D", "r", ".">>
ExpertWord == <<"E", "x", "p", "e", "r", "t">>
Doctor == <<"D", "o", "c", "t", "o", "r">>

\* INSERT of the seed records, in order, after the counter seq
SeedRows(seq) ==
  [i \in 1..Len(schemes_data) |->
     [id |-> seq + i,
      name |-> schemes_data[i].name,
      ministry |-> schemes_data[i].ministry,
      description |-> schemes_data[i].description,
      eligible_state |-> schemes_data[i].eligible_state,
      eligible_crop |-> schemes_data[i].eligible_crop,
      benefit |-> schemes_data[i].benefit,
      link |-> schemes_data[i].link,
      deadline |-> schemes_data[i].deadline]]

ZeroSequence == [t \in TableNames |-> 0]

FreshDb ==
  [history |-> <<>>, feedback |-> <<>>, settings |-> <<>>,
   community_posts |-> <<>>, expert_tokens |-> <<>>,
   verification_requests |-> <<>>, government_schemes |-> <<>>,
   sqlite_sequence |-> ZeroSequence]

UsedDb ==
  [history |-> <<>>,
   feedback |-> << [id |-> 1, type |-> <<"bug">>, text |-> <<"blurred photo">>,
                    email |-> None, rating |-> <<"4">>,
                    screenshot_filename |-> None,
                    timestamp |-> <<"2026-11-01 09:00:00">>] >>,
   settings |-> << [key |-> "dark_mode", value |-> "true"] >>,
   community_posts |-> << [id |-> 1,
                           image_filename |-> <<"20261101_085900", "_", "rust.jpg">>,
                           crop_type |-> <<"Apple">>,
                           predicted_disease |-> <<"Cedar apple rust">>,
                           confidence |-> <<"88.8", "%">>,
                           user_question |-> <<"Is this diagnosis correct?">>,
                           expert_reply |-> None,
                           reply_author |-> None,
                           timestamp |-> <<"2026-11-01 09:00:00">>] >>,
   expert_tokens |-> << [id |-> 1, token |-> <<"EXP-", "0A1B2C">>,
                         assigned_to_name |-> DrDot \o <<" ", "R", "a", "o">>,
                         created_at |-> <<"2026-11-01 08:30:00">>] >>,
   verification_requests |-> << [id |-> 1, name |-> <<"R", "a", "o">>,
                                 email |-> <<"rao@example.org">>,
                                 qualification |-> <<"BVSc">>,
                                 role |-> Doctor, status |-> <<"approved">>,
                                 timestamp |-> <<"2026-11-01 08:00:00">>],
                                [id |-> 2, name |-> <<"K", "i", "m">>,
                                 email |-> <<"kim@example.org">>,
                                 qualification |-> <<"MSc">>,
                                 role |-> None, status |-> <<"pending">>,
                                 timestamp |-> <<"2026-11-01 08:10:00">>] >>,
   government_schemes |-> SeedRows(0),
   sqlite_sequence |-> [ZeroSequence EXCEPT !["feedback"] = 1,
                                            !["community_posts"] = 1,
                                            !["expert_tokens"] = 1,
                                            !["verification_requests"] = 2,
                                            !["government_schemes"] = Len(schemes_data)]]

PriorDbs == {FreshDb, UsedDb}

\* INSERT OR IGNORE INTO settings (key, value) VALUES ('dark_mode', 'false')
InsertOrIgnoreDarkMode(s) ==
  IF \E i \in 1..Len(s) : s[i].key = "dark_mode" THEN s
  ELSE Append(s, [key |-> "dark_mode", value |-> "false"])

\* a seeding that does not clear the table first
init_db_no_delete(schemes, seq, s) ==
  [government_schemes |-> schemes \o SeedRows(seq),
   seq |-> seq + Len(schemes_data),
   settings |-> InsertOrIgnoreDarkMode(s)]

\* init_db(): DELETE FROM government_schemes, then the seed records; the
\* tables it changes, as [government_schemes, seq, settings]
init_db(schemes, seq, s) ==
  [government_schemes |-> SeedRows(seq),
   seq |-> seq + Len(schemes_data),
   settings |-> InsertOrIgnoreDarkMode(s)]

\* fix_database(): the same, without the settings table
fix_database(schemes, seq, s) ==
  [government_schemes |-> SeedRows(seq),
   seq |-> seq + Len(schemes_data),
   settings |-> s]

\* the module-level start of app.py on the database file db: init_db(),
\* then load_models()
Start(db, disease_file, gatekeeper_file) ==
  LET seeded == init_db(db.government_schemes,
                        db.sqlite_sequence["government_schemes"], db.settings)
      loaded == load_models(disease_file, gatekeeper_file)
  IN  /\ history = db.history
      /\ feedback = db.feedback
      /\ community_posts = db.community_posts
      /\ expert_tokens = db.expert_tokens
      /\ verification_requests = db.verification_requests
      /\ government_schemes = seeded.government_schemes
      /\ settings = seeded.settings
      /\ sqlite_sequence =
           [db.sqlite_sequence EXCEPT !["government_schemes"] = seeded.seq]
      /\ uploads = <<>>
      /\ disease_model = loaded.disease_model
      /\ gatekeeper_model = loaded.gatekeeper_model
      /\ clock = 1
      /\ response = Response("", 0, "")

---------------------------------------------------------------------------
(* POST /diagnose *)

DiagnoseRequests ==
  [has_file : {TRUE}, filename : ClientNames, img : Images, form : Forms]
  \cup {[has_file |-> FALSE, filename |-> <<>>, img |-> "leaf", form |-> "none"],
        [has_file |-> TRUE, filename |-> <<>>, img |-> "leaf", form |-> "none"]}

\* the bytes with the result of the filters left aside
ImgBytes_filter_discarded(req) == [img |-> req.img, png |-> FALSE]

\* the bytes that diagnose_page saves, checks and classifies
ImgBytes(req) ==
  LET read == [img |-> req.img, png |-> FALSE]
      processed == IF req.form # "none" THEN apply_image_filters(read, req.form)
                   ELSE NoBytes
  IN  IF processed # NoBytes THEN processed ELSE read

\* secure_filename of the names of the model
SecureNames == [n \in ClientNames |-> secure_filename(n)]

\* the name under which diagnose_page saves the upload
SavedName(req) == <<FileStamp(clock), "_">> \o SecureNames[req.filename]

\* the row with the confidence read without strip('%')
HistoryColumns_no_strip(filename, result, timestamp) ==
  [image_filename |-> filename,
   crop_type |-> result.crop_type,
   disease_name |-> result.disease_name,
   confidence |-> ParseFloat(result.confidence),
   timestamp |-> timestamp,
   full_details |-> JsonDumps(result),
   disease_key_for_lookup |-> result.disease_key_for_lookup]

\* the row that diagnose_page stores for the result
HistoryColumns(filename, result, timestamp) ==
  [image_filename |-> filename,
   crop_type |-> result.crop_type,
   disease_name |-> result.disease_name,
   confidence |-> ParseFloat(StripChars(result.confidence, {"%"})),
   timestamp |-> timestamp,
   full_details |-> JsonDumps(result),
   disease_key_for_lookup |-> result.disease_key_for_lookup]

\* what verify_plant_ai writes to the log for the bytes: nothing when the
\* model is missing, the failure when it raises, else the prediction
GatekeeperLog(img_bytes) ==
  IF gatekeeper_model = "None" THEN [line |-> "", prediction |-> 0]
  ELSE IF ~Decodable(img_bytes) \/ gatekeeper_model = "faulty"
    THEN [line |-> "Gatekeeper Check Failed", prediction |-> 0]
  ELSE [line |-> "Gatekeeper Check", prediction |-> GatekeeperOutput(img_bytes)]

DiagnoseResponse(status, error, calls, log, filename, result) ==
  [Response("diagnose", status, error) EXCEPT
     !.calls = calls, !.log = log, !.image_filename = filename,
     !.diagnosis = result]

\* a rejected upload whose file stays
AfterReject_keeps_file(saved, filename) == saved

\* the uploads folder after a rejected upload: os.remove(save_path)
AfterReject(saved, filename) == RemoveFile(saved, filename)

\* the history table after the INSERT of diagnose_page
AfterDiagnosis(filename, result) ==
  InsertRow(history, sqlite_sequence["history"],
            HistoryColumns(filename, result, <<RowStamp(clock)>>))

\* what goes wrong in the handler's try block outside the gate and the
\* classifier: nothing, the opening of the file to save ("save", as when the
\* uploads folder is gone) or the INSERT ("insert", as when the database is
\* locked)
Fault(req) == IF "fault" \in DOMAIN req THEN req.fault ELSE "none"

\* the history table after an INSERT that raised and left its row behind
AfterFailedInsert_keeps_row(rows, filename) ==
  Append(rows, [image_filename |-> filename])

\* the history table after an INSERT that raised: no row is stored
AfterFailedInsert(rows, filename) == rows

diagnose_page(req) ==
  IF ~req.has_file THEN
    /\ response' = DiagnoseResponse(400, "No file", <<>>, NoLog, Absent, NoDiagnosis)
    /\ UNCHANGED <<tables, uploads, models, clock>>
  ELSE IF req.filename = <<>> THEN
    /\ response' = DiagnoseResponse(400, "No filename", <<>>, NoLog, Absent, NoDiagnosis)
    /\ UNCHANGED <<tables, uploads, models, clock>>
  ELSE
    LET img_bytes == ImgBytes(req)
        filename == SavedName(req)
        saved == WriteFile(uploads, filename, img_bytes)
        c1 == (IF req.form # "none" THEN <<"apply_image_filters">> ELSE <<>>)
              \o <<"save", "verify_plant_ai">>
        log == GatekeeperLog(img_bytes)
        diagnosed == diagnose_disease(img_bytes)
    IN  IF Fault(req) = "save" THEN
          /\ response' = DiagnoseResponse(500, "exception",
                                          SubSeq(c1, 1, Len(c1) - 1), NoLog,
                                          Absent, NoDiagnosis)
          /\ UNCHANGED <<tables, uploads, models, clock>>
        ELSE IF ~verify_plant_ai(img_bytes) THEN
          /\ uploads' = AfterReject(saved, filename)
          /\ response' = DiagnoseResponse(400, "Invalid Image Detected",
                                          c1 \o <<"os.remove">>, log, Absent, NoDiagnosis)
          /\ UNCHANGED <<tables, models, clock>>
        ELSE IF diagnosed.error # "" THEN
          /\ uploads' = saved
          /\ response' = DiagnoseResponse(500, diagnosed.error,
                                          c1 \o <<"diagnose_disease">>, log, Absent, NoDiagnosis)
          /\ UNCHANGED <<tables, models, clock>>
        ELSE IF Fault(req) = "insert" THEN
          /\ uploads' = saved
          /\ history' = AfterFailedInsert(history, filename)
          /\ response' = DiagnoseResponse(500, "exception",
                                          c1 \o <<"diagnose_disease", "insert">>,
                                          log, Absent, NoDiagnosis)
          /\ UNCHANGED <<other_tables, sqlite_sequence, models, clock>>
        ELSE
          /\ uploads' = saved
          /\ history' = AfterDiagnosis(filename, diagnosed.result)
          /\ sqlite_sequence' = [sqlite_sequence EXCEPT !["history"] = @ + 1]
          /\ response' = DiagnoseResponse(200, "", c1 \o <<"diagnose_disease", "insert">>,
                                          log, filename, diagnosed.result)
          /\ UNCHANGED <<other_tables, models, clock>>

\* /diagnose is served while AUTOINCREMENT has ids left in the model
DiagnoseGate ==
  /\ sqlite_sequence["history"] < MaxGateId
  /\ \E req \in DiagnoseRequests : diagnose_page(req)

---------------------------------------------------------------------------
(* GET /get_history_details/<path:filename> *)

\* SELECT * FROM history WHERE image_filename = ? ... fetchone(): the place
\* of the first such row, 0 when there is none
FirstRowNamed(rows, name) ==
  IF \E i \in 1..Len(rows) : rows[i].image_filename = name
    THEN CHOOSE i \in 1..Len(rows) :
           /\ rows[i].image_filename = name
           /\ \A j \in 1..(i - 1) : rows[j].image_filename # name
    ELSE 0

\* disease_info.get(key): the entry, which is named by its key, or None
InfoGet(key) == IF key \in Range(disease_info) THEN key ELSE None

\* treatment_suggestions_data.get(key): the list, or None
TreatmentsGet(key) ==
  IF key \in DOMAIN treatment_suggestions_data
    THEN treatment_suggestions_data[key]
    ELSE None

\* disease_info.get(key) without the generic entry behind it
DetailsInfo_no_fallback(key) == InfoGet(key)

\* disease_info.get(key) or disease_info.get('healthy')
DetailsInfo(key) ==
  IF InfoGet(key) # None THEN InfoGet(key) ELSE InfoGet(<<"healthy">>)

\* treatment_suggestions_data.get(key)
\*   or treatment_suggestions_data.get('healthy') or []
DetailsTreatments(key) ==
  IF TreatmentsGet(key) # None THEN TreatmentsGet(key)
  ELSE IF TreatmentsGet(<<"healthy">>) # None THEN TreatmentsGet(<<"healthy">>)
  ELSE <<>>

\* the response of get_history_details on the table rows
HistoryDetails(rows, filename) ==
  LET actual_filename == Basename(filename)
      i == FirstRowNamed(rows, actual_filename)
  IN  IF i # 0
        THEN [Response("get_history_details", 200, "") EXCEPT
                !.image_filename = actual_filename,
                !.diagnosis = JsonLoads(rows[i].full_details),
                !.body = [timestamp |-> rows[i].timestamp,
                          info |-> DetailsInfo(rows[i].disease_key_for_lookup),
                          treatment_suggestions |->
                            DetailsTreatments(rows[i].disease_key_for_lookup)]]
        ELSE Response("get_history_details", 404, "Not found")

get_history_details(filename) ==
  /\ response' = HistoryDetails(history, filename)
  /\ UNCHANGED <<tables, uploads, models, clock>>

---------------------------------------------------------------------------
(* POST /delete_history_item/<path:filename> and POST /clear_all_history *)

\* a DELETE that stops after the first row of that name
DeleteNamed_first_only(rows, name) ==
  LET i == FirstRowNamed(rows, name)
  IN  IF i = 0 THEN rows ELSE SubSeq(rows, 1, i - 1) \o SubSeq(rows, i + 1, Len(rows))

\* DELETE FROM history WHERE image_filename = ?
DeleteNamed(rows, name) == SelectSeq(rows, LAMBDA r : r.image_filename # name)

\* the uploads folder when the deletion removes the file as well
AfterDelete_removes_file(files, name) == RemoveFile(files, name)

\* the uploads folder after delete_history_item: the os.remove of the file
\* is commented out
AfterDelete(files, name) == files

delete_history_item(filename) ==
  /\ history' = DeleteNamed(history, Basename(filename))
  /\ uploads' = AfterDelete(uploads, Basename(filename))
  /\ response' = Response("delete_history_item", 200, "")
  /\ UNCHANGED <<other_tables, sqlite_sequence, models, clock>>

\* a DELETE that spares the newest row
DeleteAll_but_newest(rows) == IF rows = <<>> THEN rows ELSE <<rows[Len(rows)]>>

\* DELETE FROM history
DeleteAll(rows) == <<>>

clear_all_history ==
  /\ history' = DeleteAll(history)
  /\ response' = Response("clear_all_history", 200, "")
  /\ UNCHANGED <<other_tables, sqlite_sequence, uploads, models, clock>>

---------------------------------------------------------------------------
(* GET /export_all_history and POST /import_history.                       *)
(* The text of an export file is [parses, items]; an item is a record of   *)
(* the JSON text of its diagnosis (no members when the key is missing) and *)
(* the literals of its other keys (Absent when the key is missing).        *)

\* the item that export_all_history builds for a row
ExportItem(row) ==
  [diagnosis |-> JsonLoads(row.full_details),
   timestamp |-> row.timestamp,
   image_filename |-> row.image_filename,
   image_path |-> Absent]

\* json.dump of the items
DumpItems(data) ==
  [i \in 1..Len(data) |->
     [diagnosis |-> JsonDumps(data[i].diagnosis),
      timestamp |-> JsonLiteral(data[i].timestamp),
      image_filename |-> JsonLiteral(data[i].image_filename),
      image_path |-> IF data[i].image_path = Absent THEN Absent
                     ELSE JsonLiteral(data[i].image_path)]]

\* the file that export_all_history sends for the table rows
ExportFile(rows) ==
  [parses |-> TRUE, items |-> DumpItems([i \in 1..Len(rows) |-> ExportItem(rows[i])])]

LiteralValue(lit) == IF lit = Absent THEN Absent ELSE JsonValue(lit)

\* json.load of the items of a file that parses
LoadItems(items) ==
  [i \in 1..Len(items) |->
     [diagnosis |-> JsonLoads(items[i].diagnosis),
      timestamp |-> LiteralValue(items[i].timestamp),
      image_filename |-> LiteralValue(items[i].image_filename),
      image_path |-> LiteralValue(items[i].image_path)]]

\* the name of the temporary export file
ExportName == <<"export_", FileStamp(clock), ".json">>

JsonBytes == [img |-> "<json>", png |-> FALSE]

\* what os.remove(path) does in remove_file: it removes the file, or it
\* raises (as where the file that send_file has opened cannot be removed)
\* and the error is logged
Removals == {"removed", "raises"}

\* the uploads folder after remove_file
AfterRemoveFile(folder, name, removal) ==
  IF removal = "removed" THEN RemoveFile(folder, name) ELSE folder

\* export_all_history, where os.remove does removal
export_all_history(removal) ==
  /\ uploads' = AfterRemoveFile(WriteFile(uploads, ExportName, JsonBytes),
                                ExportName, removal)
  /\ response' = [Response("export_all_history", 200, "") EXCEPT
                    !.calls = <<"open", "send_file", "os.remove">>,
                    !.body = ExportFile(history).items]
  /\ UNCHANGED <<tables, models, clock>>

\* item.get('image_filename', item.get('image_path', 'unknown.png'))
ImageNameOf(item) ==
  IF item.image_filename # Absent THEN item.image_filename
  ELSE IF item.image_path # Absent THEN item.image_path
  ELSE <<"unknown.png">>

\* the lookup key taken from the disease name whatever the item holds
LookupKeyOf_name_only(diag) == diag.disease_name

\* diag.get('disease_key_for_lookup', diag['disease_name'])
LookupKeyOf(diag) ==
  IF diag.disease_key_for_lookup # Absent THEN diag.disease_key_for_lookup
  ELSE diag.disease_name

\* the INSERT of one item raises, but not for a missing timestamp
ItemRaises_timestamp_optional(item) ==
  \/ item.diagnosis.crop_type = Absent
  \/ item.diagnosis.disease_name = Absent
  \/ item.diagnosis.confidence = Absent
  \/ ParseFloat(StripChars(PyStr(item.diagnosis.confidence), {"%"})) < 0
  \/ ImageNameOf(item) = None

\* the INSERT of one item raises: a key is missing, the confidence is no
\* number, or the image name is null (NOT NULL)
ItemRaises(item) ==
  \/ item.diagnosis.crop_type = Absent
  \/ item.diagnosis.disease_name = Absent
  \/ item.diagnosis.confidence = Absent
  \/ ParseFloat(StripChars(PyStr(item.diagnosis.confidence), {"%"})) < 0
  \/ item.timestamp = Absent
  \/ ImageNameOf(item) = None

\* the row that import_history stores for an item
ImportColumns(item) ==
  [image_filename |-> ImageNameOf(item),
   crop_type |-> item.diagnosis.crop_type,
   disease_name |-> item.diagnosis.disease_name,
   confidence |-> ParseFloat(StripChars(PyStr(item.diagnosis.confidence), {"%"})),
   timestamp |-> item.timestamp,
   full_details |-> JsonDumps(item.diagnosis),
   disease_key_for_lookup |-> LookupKeyOf(item.diagnosis)]

\* the loop of import_history over the items, from the table rows and the
\* counter seq: [ok, rows, seq]; ok is FALSE when an INSERT raised
RECURSIVE ImportItems(_, _, _)
ImportItems(rows, seq, items) ==
  IF items = <<>> THEN [ok |-> TRUE, rows |-> rows, seq |-> seq]
  ELSE IF ItemRaises(Head(items)) THEN [ok |-> FALSE, rows |-> rows, seq |-> seq]
  ELSE ImportItems(InsertRow(rows, seq, ImportColumns(Head(items))), seq + 1,
                   Tail(items))

\* the loop starting with the rows of the table whatever overwrite is
ImportStart_keeps_rows(rows, overwrite) == rows

\* the table with which the loop of import_history starts
ImportStart(rows, overwrite) == IF overwrite THEN <<>> ELSE rows

\* the transaction of import_history: [ok, rows, seq]
ImportResult(rows, seq, file, overwrite) ==
  IF ~file.parses THEN [ok |-> FALSE, rows |-> rows, seq |-> seq]
  ELSE ImportItems(ImportStart(rows, overwrite), seq, LoadItems(file.items))

import_history(req) ==
  LET done == ImportResult(history, sqlite_sequence["history"], req.file,
                           req.overwrite)
  IN  IF ~req.has_file
        THEN /\ response' = Response("import_history", 400, "No file")
             /\ UNCHANGED <<tables, uploads, models, clock>>
      ELSE IF done.ok
        THEN /\ history' = done.rows
             /\ sqlite_sequence' = [sqlite_sequence EXCEPT !["history"] = done.seq]
             /\ response' = Response("import_history", 200, "")
             /\ UNCHANGED <<other_tables, uploads, models, clock>>
        ELSE /\ response' = Response("import_history", 500, "exception")
             /\ UNCHANGED <<tables, uploads, models, clock>>

---------------------------------------------------------------------------
(* POST /ask_expert *)

\* request.json of the model: a complete question, and one without filename
AskRequests ==
  {[filename |-> SavedName([filename |-> <<"my", "_", "leaf.jpg">>]),
    crop_type |-> <<"Apple">>, disease_name |-> <<"Apple", " ", "Black", " ", "rot">>,
    confidence |-> <<"97.3", "%">>, question |-> Absent],
   [filename |-> Absent,
    crop_type |-> <<"Apple">>, disease_name |-> <<"Apple", " ", "Black", " ", "rot">>,
    confidence |-> <<"97.3", "%">>, question |-> <<"Is it scab?">>]}

ask_expert(data) ==
  IF data.filename = Absent \/ data.crop_type = Absent
     \/ data.disease_name = Absent \/ data.confidence = Absent
    THEN /\ response' = Response("ask_expert", 500, "exception")
         /\ UNCHANGED <<tables, uploads, models, clock>>
    ELSE /\ community_posts' =
              InsertRow(community_posts, sqlite_sequence["community_posts"],
                        [image_filename |-> data.filename,
                         crop_type |-> data.crop_type,
                         predicted_disease |-> data.disease_name,
                         confidence |-> data.confidence,
                         user_question |-> IF data.question = Absent
                                           THEN <<"Is this diagnosis correct?">>
                                           ELSE data.question,
                         expert_reply |-> None,
                         reply_author |-> None,
                         timestamp |-> <<RowStamp(clock)>>])
         /\ sqlite_sequence' = [sqlite_sequence EXCEPT !["community_posts"] = @ + 1]
         /\ response' = Response("ask_expert", 200, "")
         /\ UNCHANGED <<history, feedback, settings, expert_tokens,
                        verification_requests, government_schemes,
                        uploads, models, clock>>

---------------------------------------------------------------------------
(* The gate: the application started on a new database with the model      *)
(* files in any state, serving /diagnose.                                  *)

\* uploads during which the write of the file or the INSERT raises
FaultRequests ==
  [has_file : {TRUE}, filename : {<<"my", "_", "leaf.jpg">>}, img : {"leaf"},
   form : {"none", "grayscale"}, fault : {"save", "insert"}]

DiagnoseFault ==
  /\ sqlite_sequence["history"] < MaxGateId
  /\ \E req \in FaultRequests : diagnose_page(req)

InitGate ==
  \E disease_file \in ModelFileStates, gatekeeper_file \in ModelFileStates :
    Start(FreshDb, disease_file, gatekeeper_file)

NextGate ==
  \/ DiagnoseGate
  \/ DiagnoseFault

SpecGate == InitGate /\ [][NextGate]_vars

---------------------------------------------------------------------------
(* The history: the application started on a used database with both       *)
(* models loaded, serving /diagnose and the routes that manage the history *)

\* the uploads of this specification: a diseased leaf, a picture that the
\* gate rejects, and a request without a file
HistoryUploads ==
  {[has_file |-> TRUE, filename |-> <<"my", "_", "leaf.jpg">>, img |-> "leaf",
    form |-> "none"],
   [has_file |-> TRUE, filename |-> <<"my", "_", "leaf.jpg">>, img |-> "junk",
    form |-> "none"],
   [has_file |-> FALSE, filename |-> <<>>, img |-> "leaf", form |-> "none"]}

\* the <path:filename> values that the clients send
Paths ==
  {<<FileStamp(1), "_", "my", "_", "leaf.jpg">>,
   <<"static", "/", "uploads", "/", FileStamp(1), "_", "my", "_", "leaf.jpg">>,
   <<"old", "/", "leaf.png">>,
   <<"unknown.png">>}

\* an export of an older version: the image under image_path, no lookup
\* key, a numeric confidence; and an item without any image name
OldExport ==
  [parses |-> TRUE,
   items |-> << [diagnosis |-> << <<"crop_type", <<"\"", "Corn", "\"">> >>,
                                  <<"disease_name", <<"\"", "Common rust", "\"">> >>,
                                  <<"confidence", <<"88">> >> >>,
                 timestamp |-> <<"\"", "2026-10-30 07:00:00", "\"">>,
                 image_filename |-> Absent,
                 image_path |-> <<"\"", "old", "/", "leaf.png", "\"">>] >>]

NamelessExport ==
  [parses |-> TRUE,
   items |-> << [diagnosis |-> << <<"crop_type", <<"\"", "Corn", "\"">> >>,
                                  <<"disease_name", <<"\"", "Healthy", "\"">> >>,
                                  <<"disease_key_for_lookup", <<"null">> >>,
                                  <<"confidence", <<"\"", "12.5", "%", "\"">> >> >>,
                 timestamp |-> <<"null">>,
                 image_filename |-> Absent,
                 image_path |-> Absent] >>]

\* a file whose second item has no timestamp
BrokenExport ==
  [parses |-> TRUE,
   items |-> OldExport.items \o
             << [diagnosis |-> << <<"crop_type", <<"\"", "Corn", "\"">> >>,
                                  <<"disease_name", <<"\"", "Healthy", "\"">> >>,
                                  <<"confidence", <<"50.0">> >> >>,
                 timestamp |-> Absent,
                 image_filename |-> <<"\"", "b.png", "\"">>,
                 image_path |-> Absent] >>]

\* files whose second item lacks the diagnosis, its crop_type, its
\* disease_name, or has a confidence that is no number
BrokenFiles ==
  {[parses |-> TRUE,
    items |-> OldExport.items \o
              << [diagnosis |-> d,
                  timestamp |-> <<"\"", "2026-10-31 09:30:00", "\"">>,
                  image_filename |-> <<"\"", "b.png", "\"">>,
                  image_path |-> Absent] >>] :
     d \in {<<>>,
            << <<"disease_name", <<"\"", "Healthy", "\"">> >>,
               <<"confidence", <<"50.0">> >> >>,
            << <<"crop_type", <<"\"", "Corn", "\"">> >>,
               <<"confidence", <<"50.0">> >> >>,
            << <<"crop_type", <<"\"", "Corn", "\"">> >>,
               <<"disease_name", <<"\"", "Healthy", "\"">> >> >>,
            << <<"crop_type", <<"\"", "Corn", "\"">> >>,
               <<"disease_name", <<"\"", "Healthy", "\"">> >>,
               <<"confidence", <<"\"", "high", "\"">> >> >>,
            << <<"crop_type", <<"\"", "Corn", "\"">> >>,
               <<"disease_name", <<"\"", "Healthy", "\"">> >>,
               <<"confidence", <<"null">> >> >>}}

\* a file that is no JSON
NoJson == [parses |-> FALSE, items |-> <<>>]

ClientFiles == <<OldExport, NamelessExport, BrokenExport, NoJson>>

\* the file of the most recent response, when that was an export
Exported == [parses |-> TRUE, items |-> response.body]

Diagnose ==
  /\ sqlite_sequence["history"] < MaxHistoryId
  /\ \E req \in HistoryUploads : diagnose_page(req)

GetHistoryDetails == \E filename \in Paths : get_history_details(filename)

DeleteHistoryItem == \E filename \in Paths : delete_history_item(filename)

ClearAllHistory == clear_all_history

\* the export where the temporary file can be removed
ExportAllHistory == export_all_history("removed")

\* the client sends one of its files, or the file it has just downloaded
ImportHistory ==
  \E overwrite \in BOOLEAN :
    \/ /\ ~overwrite
       /\ import_history([has_file |-> FALSE, file |-> NoJson, overwrite |-> FALSE])
    \/ \E i \in 1..Len(ClientFiles) :
         /\ sqlite_sequence["history"] + Len(ClientFiles[i].items) <= MaxHistoryId
         /\ import_history([has_file |-> TRUE, file |-> ClientFiles[i],
                            overwrite |-> overwrite])
    \/ \E file \in BrokenFiles :
         /\ sqlite_sequence["history"] + Len(file.items) <= MaxHistoryId
         /\ import_history([has_file |-> TRUE, file |-> file,
                            overwrite |-> overwrite])
    \/ /\ response.route = "export_all_history"
       /\ sqlite_sequence["history"] + Len(response.body) <= MaxHistoryId
       /\ import_history([has_file |-> TRUE, file |-> Exported,
                          overwrite |-> overwrite])

Init == Start(UsedDb, "ok", "ok")

Next ==
  \/ Diagnose
  \/ GetHistoryDetails
  \/ DeleteHistoryItem
  \/ ClearAllHistory
  \/ ExportAllHistory
  \/ ImportHistory

Spec == Init /\ [][Next]_vars

---------------------------------------------------------------------------
(* Claims about the gate and the diagnosis *)

\* the position of the first x in s, 0 when there is none
FirstIndex(s, x) ==
  IF x \in Range(s) THEN CHOOSE i \in 1..Len(s) : s[i] = x /\ \A j \in 1..(i - 1) : s[j] # x
  ELSE 0

\* the request carries a named file
Named(req) == req.has_file /\ req.filename # <<>>

Rejected(r) == r.route = "diagnose" /\ r.error = "Invalid Image Detected"

\* C1: in every POST /diagnose with a named file the gate check runs before
\* the classification, and when verify_plant_ai rejects the image the
\* request returns 400 'Invalid Image Detected', diagnose_disease is not
\* invoked, no history row is inserted and the file that the request saved
\* is removed from the uploads folder
C1_GateBeforeDiagnosis ==
  [][\A req \in DiagnoseRequests :
       (diagnose_page(req) /\ Named(req)) =>
         /\ "verify_plant_ai" \in Range(response'.calls)
         /\ "diagnose_disease" \in Range(response'.calls) =>
              FirstIndex(response'.calls, "verify_plant_ai")
                < FirstIndex(response'.calls, "diagnose_disease")
         /\ ~verify_plant_ai(ImgBytes(req)) =>
              /\ response'.status = 400
              /\ response'.error = "Invalid Image Detected"
              /\ "diagnose_disease" \notin Range(response'.calls)
              /\ history' = history
              /\ sqlite_sequence' = sqlite_sequence
              /\ SavedName(req) \notin DOMAIN uploads']_vars

\* a rejected upload, after an earlier diagnosis has stored a row
C1_Witness ==
  /\ Rejected(response)
  /\ response.log.line = "Gatekeeper Check"
  /\ Len(history) = 1

\* C2: the gate fails open: verify_plant_ai returns True whenever the
\* gatekeeper model is not loaded and whenever decoding or the prediction
\* raises, so no upload is rejected because the gating model is unavailable
\* or errored
C2_GateFailsOpen ==
  [][\A req \in DiagnoseRequests :
       (/\ diagnose_page(req)
        /\ Named(req)
        /\ \/ gatekeeper_model # "ok"
           \/ ~Decodable(ImgBytes(req))) =>
         /\ verify_plant_ai(ImgBytes(req))
         /\ ~Rejected(response')
         /\ SavedName(req) \in DOMAIN uploads']_vars

\* the junk picture is diagnosed where the gatekeeper model is missing
C2_Witness ==
  /\ gatekeeper_model = "None"
  /\ disease_model = "ok"
  /\ response.route = "diagnose"
  /\ response.status = 200
  /\ response.diagnosis = DiagnosisTable[[img |-> "junk", png |-> FALSE]]

\* C3: every POST /diagnose that returns success inserts exactly one history
\* row (the saved file name, crop_type, disease_name, the numeric
\* confidence, the timestamp, the JSON of the diagnosis, the lookup key) and
\* leaves the earlier rows unchanged; a request that returns an error
\* leaves the table as it was
C3_OneRowPerDiagnosis ==
  [][\A req \in DiagnoseRequests :
       diagnose_page(req) =>
         IF response'.status = 200
           THEN LET row == history'[Len(history')]
                    diag == response'.diagnosis
                IN  /\ Len(history') = Len(history) + 1
                    /\ SubSeq(history', 1, Len(history)) = history
                    /\ \A i \in 1..Len(history) : history[i].id # row.id
                    /\ row.image_filename = SavedName(req)
                    /\ row.image_filename = response'.image_filename
                    /\ row.image_filename \in DOMAIN uploads'
                    /\ row.crop_type = diag.crop_type
                    /\ row.disease_name = diag.disease_name
                    /\ row.confidence \in DOMAIN DecimalText
                    /\ <<DecimalText[row.confidence], "%">> = diag.confidence
                    /\ row.timestamp = <<RowStamp(clock)>>
                    /\ JsonLoads(row.full_details) = diag
                    /\ row.disease_key_for_lookup = diag.disease_key_for_lookup
           ELSE /\ response'.status \in {400, 500}
                /\ history' = history]_vars

\* a second successful diagnosis, with the row of the first still there
C3_Witness ==
  /\ response.route = "diagnose"
  /\ response.status = 200
  /\ Len(history) = 2
  /\ history[1].full_details # history[2].full_details

\* C4: with the gatekeeper model loaded and predicting without error,
\* verify_plant_ai accepts the image if and only if the output is strictly
\* greater than 0.90; an output of exactly 0.90 or lower is rejected
C4_GateThreshold ==
  [][\A req \in DiagnoseRequests :
       (/\ diagnose_page(req)
        /\ Named(req)
        /\ gatekeeper_model = "ok"
        /\ Decodable(ImgBytes(req))) =>
         /\ verify_plant_ai(ImgBytes(req)) <=> GatekeeperOutput(ImgBytes(req)) > 90
         /\ Rejected(response') <=> GatekeeperOutput(ImgBytes(req)) <= 90
         /\ response'.log.prediction = GatekeeperOutput(ImgBytes(req))]_vars

\* an upload whose prediction is exactly 0.90 is rejected
C4_Witness ==
  /\ gatekeeper_model = "ok"
  /\ Rejected(response)
  /\ response.log.line = "Gatekeeper Check"
  /\ response.log.prediction = 90

\* C12: every failing POST /diagnose returns a JSON error with an HTTP error
\* code and leaves the history table unchanged: without a 'file' part or
\* with an empty filename it returns 400 before anything is read or written;
\* a classifier error (the disease model not loaded, or an error while it
\* classifies) and any exception inside the handler return 500
C12_FailingDiagnose ==
  [][\A req \in DiagnoseRequests \cup FaultRequests :
       diagnose_page(req) =>
         /\ response'.status # 200 =>
              /\ response'.status \in {400, 500}
              /\ response'.error # ""
              /\ response'.diagnosis = NoDiagnosis
              /\ history' = history
              /\ sqlite_sequence' = sqlite_sequence
         /\ ~Named(req) =>
              /\ response'.status = 400
              /\ response'.error = IF req.has_file THEN "No filename" ELSE "No file"
              /\ response'.calls = <<>>
              /\ UNCHANGED <<tables, uploads>>
         /\ (/\ "diagnose_disease" \in Range(response'.calls)
             /\ \/ disease_model # "ok"
                \/ ~Decodable(ImgBytes(req))) =>
              /\ response'.status = 500
              /\ response'.error =
                   IF disease_model = "None" THEN "Model not loaded." ELSE "exception"
         /\ Fault(req) = "save" => response'.status = 500
         /\ Fault(req) = "insert" => response'.status = 500 \/ Rejected(response')]_vars

\* the INSERT raised after an earlier upload was diagnosed: 500, the file of
\* the request is saved and the table holds the one earlier row
C12_Witness ==
  /\ response.route = "diagnose"
  /\ response.status = 500
  /\ response.error = "exception"
  /\ "insert" \in Range(response.calls)
  /\ Len(history) = 1
  /\ sqlite_sequence["history"] = 1
  /\ uploads # <<>>

\* the bytes of the upload as file.read() returns them
Read(req) == [img |-> req.img, png |-> FALSE]

\* the request carries form fields and apply_image_filters returns None
FilterFails(req) ==
  req.form # "none" /\ apply_image_filters(Read(req), req.form) = NoBytes

\* the handler saved, gate-checked and classified the bytes b, as far as it
\* went: the file it left holds b, the prediction it logged is the
\* gatekeeper's for b, and the diagnosis it returned is the classifier's for b
Handled(req, b) ==
  /\ "save" \in Range(response'.calls)
  /\ "verify_plant_ai" \in Range(response'.calls)
  /\ Rejected(response') => ~verify_plant_ai(b)
  /\ ~Rejected(response') =>
       /\ SavedName(req) \in DOMAIN uploads'
       /\ uploads'[SavedName(req)] = b
       /\ verify_plant_ai(b)
       /\ "diagnose_disease" \in Range(response'.calls)
  /\ response'.log = GatekeeperLog(b)
  /\ response'.status = 200 => response'.diagnosis = DiagnosisTable[b]
  /\ response'.status = 500 <=> (verify_plant_ai(b) /\ diagnose_disease(b).error # "")

\* C18: the filter is optional and its failure does not fail the request:
\* when the form carries fields and apply_image_filters returns None (a
\* brightness that float() cannot read, bytes that cannot be decoded),
\* /diagnose goes on with the bytes of the upload, which are the bytes it
\* saves, gate-checks and classifies, and it answers 500 only when the
\* classifier fails on those bytes; when the filter succeeds the filtered
\* bytes are the ones saved, gate-checked and classified
C18_FilterOptional ==
  [][\A req \in DiagnoseRequests :
       (Named(req) /\ req.form # "none" /\ diagnose_page(req)) =>
         /\ response'.calls[1] = "apply_image_filters"
         /\ FilterFails(req) =>
              /\ Handled(req, Read(req))
              /\ response'.status = 500 => diagnose_disease(Read(req)).error # ""
         /\ ~FilterFails(req) =>
              /\ apply_image_filters(Read(req), req.form).png
              /\ Handled(req, apply_image_filters(Read(req), req.form))]_vars

\* a leaf uploaded with a brightness that float() cannot read was diagnosed
\* from the bytes of the upload, which are the bytes in the saved file
C18_Witness ==
  /\ response.route = "diagnose"
  /\ response.status = 200
  /\ response.calls[1] = "apply_image_filters"
  /\ response.image_filename \in DOMAIN uploads
  /\ ~uploads[response.image_filename].png
  /\ response.diagnosis = DiagnosisTable[[img |-> "leaf", png |-> FALSE]]

---------------------------------------------------------------------------
(* Claims about the management of the history *)

\* the rows of the table whose image_filename is not name
RowsNotNamed(rows, name) == {r \in Range(rows) : r.image_filename # name}

\* C5: delete_history_item(filename) removes the history record whose
\* image_filename equals the basename of filename, so that a following
\* get_history_details for that filename returns 404 'Not found', and it
\* leaves every history row with a different image_filename, every
\* community post and every other table unchanged
C5_DeleteHistoryItem ==
  [][\A filename \in Paths :
       delete_history_item(filename) =>
         /\ \A i \in 1..Len(history') :
              history'[i].image_filename # Basename(filename)
         /\ HistoryDetails(history', filename).status = 404
         /\ HistoryDetails(history', filename).error = "Not found"
         /\ Range(history') = RowsNotNamed(history, Basename(filename))
         /\ Len(history') = Cardinality(RowsNotNamed(history, Basename(filename)))
         /\ community_posts' = community_posts
         /\ UNCHANGED <<feedback, settings, expert_tokens, verification_requests,
                        government_schemes>>]_vars

\* a delete request has been served, rows are gone from the table and a row
\* of another name, a community post and the uploaded files are still there
C5_Witness ==
  /\ response.route = "delete_history_item"
  /\ history # <<>>
  /\ Len(history) + 2 <= sqlite_sequence["history"]
  /\ \A i \in 1..Len(history) : history[i].image_filename = <<"old", "/", "leaf.png">>
  /\ community_posts # <<>>
  /\ uploads # <<>>

\* C6: after clear_all_history the history table is empty whatever it held
\* before, while community_posts, feedback, expert_tokens,
\* verification_requests, government_schemes and settings are unchanged
C6_ClearAllHistory ==
  [][clear_all_history =>
       /\ history' = <<>>
       /\ UNCHANGED <<community_posts, feedback, expert_tokens,
                      verification_requests, government_schemes, settings>>]_vars

\* the history has been cleared after it held rows, and the other tables
\* hold rows
C6_Witness ==
  /\ response.route = "clear_all_history"
  /\ history = <<>>
  /\ sqlite_sequence["history"] >= 2
  /\ community_posts # <<>>
  /\ feedback # <<>>
  /\ expert_tokens # <<>>

\* C7: for any history table reachable by diagnose, import and delete
\* operations, export_all_history followed by import_history of the
\* exported JSON with overwrite=true yields a history table with the same
\* multiset of rows on the columns image_filename, crop_type, disease_name,
\* confidence, timestamp, full_details and disease_key_for_lookup (only the
\* ids may differ)
C7_ExportImportRoundTrip ==
  [][(/\ response.route = "export_all_history"
      /\ import_history([has_file |-> TRUE, file |-> Exported, overwrite |-> TRUE]))
       => /\ response'.status = 200
          /\ SameRows(history, history')]_vars

\* an export of two different rows, one born of a diagnosis and one of an
\* old export, has been imported over the table: both rows have new ids
C7_Witness ==
  /\ response.route = "import_history"
  /\ response.status = 200
  /\ Len(history) = 2
  /\ history[1].image_filename = <<"old", "/", "leaf.png">>
  /\ history[2].disease_key_for_lookup = class_labels[2]
  /\ history[1].id > 2
  /\ history[2].id = sqlite_sequence["history"]

\* the text of a diagnosis has a member of that key
HasKey(text, key) == \E i \in 1..Len(text) : text[i][1] = key

\* the literal is a number, or a string that holds one with or without '%'
NumericLiteral(lit) ==
  \E t \in DOMAIN DecimalText :
    lit \in {<<DecimalText[t]>>, <<"\"", DecimalText[t], "\"">>,
             <<"\"", DecimalText[t], "%", "\"">>}

\* the file cannot be parsed, or one of its items lacks 'diagnosis',
\* 'timestamp', 'crop_type', 'disease_name' or a numeric 'confidence'
Lacking(file) ==
  \/ ~file.parses
  \/ \E i \in 1..Len(file.items) :
       \/ file.items[i].timestamp = Absent
       \/ ~HasKey(file.items[i].diagnosis, "crop_type")
       \/ ~HasKey(file.items[i].diagnosis, "disease_name")
       \/ \A k \in 1..Len(file.items[i].diagnosis) :
            file.items[i].diagnosis[k][1] = "confidence" =>
              ~NumericLiteral(file.items[i].diagnosis[k][2])

\* the files of the clients that lack something
LackingFiles == {file \in Range(ClientFiles) \cup BrokenFiles : Lacking(file)}

\* C13: import_history is all-or-nothing: when the uploaded JSON cannot be
\* parsed, or any item lacks 'diagnosis', 'timestamp', 'crop_type',
\* 'disease_name' or a numeric 'confidence', the request returns 500 with a
\* JSON error and the history table is exactly as it was before the request,
\* also with overwrite=true and also when earlier items of the file were
\* valid; stated as: a request that ends otherwise is not the import of
\* such a file
C13_ImportAllOrNothing ==
  [][\A file \in LackingFiles, overwrite \in BOOLEAN :
       (/\ response'.route = "import_history"
        /\ \/ response'.status # 500
           \/ response'.error = ""
           \/ history' # history
           \/ sqlite_sequence' # sqlite_sequence) =>
         ~import_history([has_file |-> TRUE, file |-> file,
                          overwrite |-> overwrite])]_vars

\* an import has failed on a table of two rows, neither of them the valid
\* first item of the broken files
C13_Witness ==
  /\ response.route = "import_history"
  /\ response.status = 500
  /\ Len(history) = 2
  /\ \A i \in 1..2 : history[i].image_filename # <<"old", "/", "leaf.png">>
  /\ \E file \in BrokenFiles : Len(file.items) = 2 /\ ~Lacking([file EXCEPT !.items = <<file.items[1]>>])

\* the files a client can have sent in this step: its own files and the
\* file it has just downloaded
Sendable ==
  Range(ClientFiles) \cup
    (IF response.route = "export_all_history" THEN {Exported} ELSE {})

\* the row was stored for the item of an import file: its image name is
\* the item's 'image_filename', else its 'image_path', else 'unknown.png',
\* and its lookup key the diagnosis's 'disease_key_for_lookup', else its
\* 'disease_name'
RowOfItem(row, item) ==
  /\ row.image_filename =
       IF item.image_filename # Absent THEN JsonValue(item.image_filename)
       ELSE IF item.image_path # Absent THEN JsonValue(item.image_path)
       ELSE <<"unknown.png">>
  /\ row.disease_key_for_lookup =
       IF HasKey(item.diagnosis, "disease_key_for_lookup")
         THEN MemberValue(item.diagnosis, "disease_key_for_lookup")
         ELSE MemberValue(item.diagnosis, "disease_name")
  /\ row.timestamp = JsonValue(item.timestamp)

\* C24: a successful import_history with overwrite not equal to 'true'
\* appends: afterwards history holds every row it held before, unchanged,
\* plus one new row per item of the imported list; with overwrite='true'
\* it holds exactly one row per imported item and none of the earlier
\* rows. An item's image name is its 'image_filename', else its
\* 'image_path', else 'unknown.png', and its lookup key is the diagnosis's
\* 'disease_key_for_lookup', else its 'disease_name'
C24_ImportAppendsOrOverwrites ==
  [][(response'.route = "import_history" /\ response'.status = 200) =>
       \A file \in Sendable, overwrite \in BOOLEAN :
         import_history([has_file |-> TRUE, file |-> file,
                         overwrite |-> overwrite]) =>
           LET kept == IF overwrite THEN 0 ELSE Len(history)
               n == Len(file.items)
           IN  /\ Len(history') = kept + n
               /\ ~overwrite => SubSeq(history', 1, kept) = history
               /\ \A k \in 1..n :
                    /\ RowOfItem(history'[kept + k], file.items[k])
                    /\ \A i \in 1..Len(history) :
                         history[i].id # history'[kept + k].id
                    /\ \A j \in 1..n :
                         j # k => history'[kept + j].id # history'[kept + k].id]_vars

\* an item without image name was imported after a diagnosis: the row of
\* the diagnosis is followed by a row for 'unknown.png'
C24_Witness ==
  /\ response.route = "import_history"
  /\ response.status = 200
  /\ Len(history) = 2
  /\ history[1].id = 1
  /\ history[1].disease_key_for_lookup = class_labels[2]
  /\ history[2].image_filename = <<"unknown.png">>
  /\ history[2].disease_key_for_lookup = None

\* C25: once a POST /diagnose has succeeded and stored a history row for an
\* uploaded file, no later request removes or overwrites that file in the
\* uploads folder, also not a later upload with the same client filename
\* that arrives within the same clock second and is rejected by the
\* gatekeeper: every file that a history row names stays in the folder with
\* its bytes in every step
C25_DiagnosedFilesStay ==
  [][\A name \in DOMAIN uploads :
       (\E i \in 1..Len(history) : history[i].image_filename = name) =>
         /\ name \in DOMAIN uploads'
         /\ uploads'[name] = uploads[name]]_vars

---------------------------------------------------------------------------
(* The community feed: /expert_reply, /apply_for_expert, /approve_expert,  *)
(* /generate_expert_key and /delete_community_post.  The names of authors  *)
(* and experts are written letter by letter.                               *)

CommunityMember == <<"Community Member">>

\* SELECT * FROM expert_tokens WHERE token = ? ... fetchone(): the place of
\* the row, 0 when there is none
TokenRow(tokens, code) ==
  IF \E i \in 1..Len(tokens) : tokens[i].token = code
    THEN CHOOSE i \in 1..Len(tokens) : tokens[i].token = code
    ELSE 0

\* the expert_code fields that the clients send: none, a blank one, and the
\* codes that approve_expert can hand out, one typed with blanks around it
Codes ==
  {Absent,
   <<" ", " ">>,
   <<" ", "EXP-", "0A1B2C", " ">>,
   <<"EXP-", "C0FFEE">>}

\* expert_code.strip() on the codes of the model
StrippedCodes == [c \in Codes \ {Absent} |-> Strip(c)]

\* the lookup with the code as the client typed it
TokenLookup_no_strip(tokens, expert_code) == TokenRow(tokens, expert_code)

\* the lookup of expert_reply: the code is stripped first
TokenLookup(tokens, expert_code) == TokenRow(tokens, StrippedCodes[expert_code])

\* reply_author.replace("Dr.", "").replace("Expert", "").strip()
StripTitles(reply_author) ==
  Strip(ReplaceWithEmpty(ReplaceWithEmpty(reply_author, DrDot), ExpertWord))

\* "Dr." in reply_author or "Expert" in reply_author
HasTitle(reply_author) ==
  Contains(reply_author, DrDot) \/ Contains(reply_author, ExpertWord)

Ann == <<"A", "n", "n">>

\* the reply_author fields that the clients send: none, a plain name, a
\* name with a title, and a name in which a title is left when the title
\* inside it is removed
Authors ==
  {Absent,
   Ann,
   DrDot \o <<" ">> \o Ann,
   <<"D">> \o DrDot \o <<"r", ".">>}

\* request.form.get('reply_author') or "Community Member"
TypedAuthor(form_author) ==
  IF form_author = Absent \/ form_author = <<>> THEN CommunityMember
  ELSE form_author

\* StripTitles and HasTitle on the authors of the model
StrippedAuthors == [a \in Authors |-> StripTitles(TypedAuthor(a))]

TitledAuthors == {a \in Authors : HasTitle(TypedAuthor(a))}

\* if not reply_author: reply_author = "Community Member"
OrCommunityMember(reply_author) ==
  IF reply_author = <<>> \/ reply_author = None THEN CommunityMember
  ELSE reply_author

\* the reply_author that expert_reply stores for the form fields
ReplyAuthor(tokens, form_author, expert_code) ==
  IF expert_code # Absent /\ expert_code # <<>> /\ StrippedCodes[expert_code] # <<>>
    THEN IF TokenLookup(tokens, expert_code) # 0
           THEN OrCommunityMember(
                  tokens[TokenLookup(tokens, expert_code)].assigned_to_name)
           ELSE OrCommunityMember(StrippedAuthors[form_author])
  ELSE IF form_author \in TitledAuthors
    THEN OrCommunityMember(StrippedAuthors[form_author])
  ELSE TypedAuthor(form_author)

\* the UPDATE that leaves a post alone once it holds a reply
UpdateReply_first_reply_stays(posts, post_id, reply_text, reply_author) ==
  [i \in 1..Len(posts) |->
     IF posts[i].id = post_id /\ posts[i].expert_reply = None
       THEN [posts[i] EXCEPT !.expert_reply = reply_text,
                             !.reply_author = reply_author]
       ELSE posts[i]]

\* UPDATE community_posts SET expert_reply = ?, reply_author = ? WHERE id = ?
UpdateReply(posts, post_id, reply_text, reply_author) ==
  [i \in 1..Len(posts) |->
     IF posts[i].id = post_id
       THEN [posts[i] EXCEPT !.expert_reply = reply_text,
                             !.reply_author = reply_author]
       ELSE posts[i]]

expert_reply(form) ==
  /\ community_posts' =
       UpdateReply(community_posts, form.post_id, form.reply_text,
                   ReplyAuthor(expert_tokens, form.reply_author, form.expert_code))
  /\ response' = Response("expert_reply", 302, "")
  /\ UNCHANGED <<history, feedback, settings, expert_tokens,
                 verification_requests, government_schemes, sqlite_sequence,
                 uploads, models, clock>>

apply_for_expert(form) ==
  IF form.name = Absent \/ form.email = Absent \/ form.qualification = Absent
    THEN /\ response' = Response("apply_for_expert", 500, "exception")
         /\ UNCHANGED <<tables, uploads, models, clock>>
    ELSE /\ verification_requests' =
              InsertRow(verification_requests,
                        sqlite_sequence["verification_requests"],
                        [name |-> form.name,
                         email |-> form.email,
                         qualification |-> form.qualification,
                         role |-> IF form.role = Absent THEN None ELSE form.role,
                         status |-> <<"pending">>,
                         timestamp |-> <<RowStamp(clock)>>])
         /\ sqlite_sequence' =
              [sqlite_sequence EXCEPT !["verification_requests"] = @ + 1]
         /\ response' = Response("apply_for_expert", 302, "")
         /\ UNCHANGED <<history, feedback, settings, community_posts,
                        expert_tokens, government_schemes, uploads, models, clock>>

\* str.upper() on what secrets.token_hex returns
UpperTable ==
  ("0a1b2c" :> "0A1B2C" @@ "c0ffee" :> "C0FFEE" @@ "123456" :> "123456" @@
   "a1b2c3d4" :> "A1B2C3D4")

Upper(hex) == UpperTable[hex]

\* the display name that approve_expert builds for a request with a role
FinalName(req) ==
  IF req.role = Doctor
    THEN DrDot \o <<" ">> \o req.name
    ELSE ExpertWord \o <<" ">> \o req.name \o <<" ", "(">> \o req.role \o <<")">>

\* the place of the request with that id, 0 when there is none
RequestRow(requests, req_id) ==
  IF \E i \in 1..Len(requests) : requests[i].id = req_id
    THEN CHOOSE i \in 1..Len(requests) : requests[i].id = req_id
    ELSE 0

\* what the SMTP server does with the message: it takes it, it refuses the
\* login, or it cannot be reached
SmtpOutcomes == {"sent", "refused", "unreachable"}

\* send_token_email(...): True when every step of the sending succeeds,
\* False when one of them raises
send_token_email(smtp) == smtp = "sent"

\* the message that is shown whatever the e-mail did
StatusMsg_always_sent(email_status) == "Email Sent Successfully!"

\* status_msg
StatusMsg(email_status) ==
  IF email_status THEN "Email Sent Successfully!"
  ELSE "Database updated, but Email failed (Check console logs)."

\* the requests with the status left as it is
Approved_status_kept(requests, r) == requests

\* UPDATE verification_requests SET status='approved' WHERE id = ?
Approved(requests, r) == [requests EXCEPT ![r].status = <<"approved">>]

\* approve_expert(req_id), where secrets.token_hex(3) returns hex and the
\* SMTP server does smtp
approve_expert(req_id, hex, smtp) ==
  LET r == RequestRow(verification_requests, req_id)
      req == verification_requests[r]
      new_token == <<"EXP-", Upper(hex)>>
  IN  IF r = 0
        THEN /\ response' = Response("approve_expert", 200, "Error: Request not found")
             /\ UNCHANGED <<tables, uploads, models, clock>>
      ELSE IF req.role = None \/ TokenRow(expert_tokens, new_token) # 0
        THEN /\ response' = Response("approve_expert", 500, "exception")
             /\ UNCHANGED <<tables, uploads, models, clock>>
      ELSE /\ expert_tokens' =
                InsertRow(expert_tokens, sqlite_sequence["expert_tokens"],
                          [token |-> new_token,
                           assigned_to_name |-> FinalName(req),
                           created_at |-> <<RowStamp(clock)>>])
           /\ verification_requests' = Approved(verification_requests, r)
           /\ sqlite_sequence' = [sqlite_sequence EXCEPT !["expert_tokens"] = @ + 1]
           /\ response' =
                [Response("approve_expert", 200, "") EXCEPT
                   !.calls = <<"INSERT", "UPDATE", "commit", "send_token_email">>,
                   !.body = [role |-> req.role,
                             final_name |-> FinalName(req),
                             status_msg |-> StatusMsg(send_token_email(smtp)),
                             email |-> req.email,
                             token |-> new_token]]
           /\ UNCHANGED <<history, feedback, settings, community_posts,
                          government_schemes, uploads, models, clock>>

\* generate_expert_key(name), where secrets.token_hex(4) returns hex
generate_expert_key(name, hex) ==
  LET new_token == <<"EXP-", hex>>
  IN  IF TokenRow(expert_tokens, new_token) # 0
        THEN /\ response' = Response("generate_expert_key", 200, "Error")
             /\ UNCHANGED <<tables, uploads, models, clock>>
        ELSE /\ expert_tokens' =
                  InsertRow(expert_tokens, sqlite_sequence["expert_tokens"],
                            [token |-> new_token,
                             assigned_to_name |-> name,
                             created_at |-> <<RowStamp(clock)>>])
             /\ sqlite_sequence' = [sqlite_sequence EXCEPT !["expert_tokens"] = @ + 1]
             /\ response' = Response("generate_expert_key", 200, "")
             /\ UNCHANGED <<history, feedback, settings, community_posts,
                            verification_requests, government_schemes,
                            uploads, models, clock>>

delete_community_post(post_id) ==
  /\ community_posts' = SelectSeq(community_posts, LAMBDA r : r.id # post_id)
  /\ response' = Response("delete_community_post", 200, "")
  /\ UNCHANGED <<history, feedback, settings, expert_tokens,
                 verification_requests, government_schemes, sqlite_sequence,
                 uploads, models, clock>>

---------------------------------------------------------------------------
(* The community: the application started on a used database, serving the  *)
(* routes of the community feed.                                           *)

\* the ids that the clients send: those handed out, and the next one
PostIds == 1..(sqlite_sequence["community_posts"] + 1)

RequestIds == 1..(sqlite_sequence["verification_requests"] + 1)

ReplyForms ==
  [post_id : PostIds, reply_text : {<<"Looks like rust.">>},
   reply_author : Authors, expert_code : Codes]

Applications ==
  {[name |-> <<"L", "e", "e">>, email |-> <<"lee@example.org">>,
    qualification |-> <<"Agri shop">>, role |-> <<"Shop Owner">>],
   [name |-> Absent, email |-> <<"lee@example.org">>,
    qualification |-> <<"Agri shop">>, role |-> Doctor]}

\* the ids that the three tables have handed out
CommunityIds ==
  sqlite_sequence["community_posts"] + sqlite_sequence["expert_tokens"]
    + sqlite_sequence["verification_requests"]

AskExpert ==
  /\ CommunityIds < MaxCommunityIds
  /\ \E data \in AskRequests : ask_expert(data)

ExpertReply == \E form \in ReplyForms : expert_reply(form)

ApplyForExpert ==
  /\ CommunityIds < MaxCommunityIds
  /\ \E form \in Applications : apply_for_expert(form)

ApproveExpert ==
  /\ CommunityIds < MaxCommunityIds
  /\ \E req_id \in RequestIds, hex \in {"0a1b2c", "c0ffee"}, smtp \in {"sent"} :
       approve_expert(req_id, hex, smtp)

GenerateExpertKey ==
  /\ CommunityIds < MaxCommunityIds
  /\ \E hex \in {"a1b2c3d4"} : generate_expert_key(Ann, hex)

DeleteCommunityPost == \E post_id \in PostIds : delete_community_post(post_id)

InitCommunity == Start(UsedDb, "ok", "ok")

NextCommunity ==
  \/ AskExpert
  \/ ExpertReply
  \/ ApplyForExpert
  \/ ApproveExpert
  \/ GenerateExpertKey
  \/ DeleteCommunityPost

SpecCommunity == InitCommunity /\ [][NextCommunity]_vars

---------------------------------------------------------------------------
(* Claims about the identity of the experts *)

\* the expert_code, stripped, is the token of a row
ValidCode(expert_code) ==
  /\ expert_code # Absent
  /\ \E i \in 1..Len(expert_tokens) :
       expert_tokens[i].token = StrippedCodes[expert_code]

\* the reply forms that carry the expert_code
FormsWith(expert_code) == {form \in ReplyForms : form.expert_code = expert_code}

\* C8: for every expert_reply request that carries no expert_code, a blank
\* one, or one that matches no row of expert_tokens, the reply_author
\* stored on the post contains neither the substring 'Dr.' nor the
\* substring 'Expert', for every author string the user can submit
C8_NoTitleWithoutToken ==
  [][\A expert_code \in Codes :
       ~ValidCode(expert_code) =>
         \A form \in FormsWith(expert_code) :
           expert_reply(form) =>
             \A i \in 1..Len(community_posts') :
               community_posts'[i].id = form.post_id =>
                 /\ ~Contains(community_posts'[i].reply_author, DrDot)
                 /\ ~Contains(community_posts'[i].reply_author, ExpertWord)]_vars

\* C9: when expert_reply carries an expert_code that (after trimming
\* whitespace) equals the token of a row in expert_tokens, the stored
\* reply_author is that row's assigned_to_name, regardless of the
\* reply_author the user typed
C9_TokenSetsAuthor ==
  [][response'.route = "expert_reply" =>
       \A expert_code \in Codes :
         ValidCode(expert_code) =>
           \A form \in FormsWith(expert_code) :
             expert_reply(form) =>
               \A i \in 1..Len(community_posts') :
                 community_posts'[i].id = form.post_id =>
                   \E t \in 1..Len(expert_tokens) :
                     /\ expert_tokens[t].token = Strip(expert_code)
                     /\ community_posts'[i].reply_author =
                          expert_tokens[t].assigned_to_name]_vars

\* a reply has been stored under the name of an expert whom approve_expert
\* has verified in this run
C9_Witness ==
  /\ response.route = "expert_reply"
  /\ Len(community_posts) = 1
  /\ Len(expert_tokens) = 2
  /\ expert_tokens[2].token = <<"EXP-", "C0FFEE">>
  /\ community_posts[1].expert_reply # None
  /\ community_posts[1].reply_author = expert_tokens[2].assigned_to_name

---------------------------------------------------------------------------
(* The replies: the application started on a used database, serving        *)
(* /ask_expert, /expert_reply with two texts and /delete_community_post.   *)

\* the forms of the replies: two texts, from a member, from a member who
\* types a title and from the bearer of a token
RepliesSent ==
  [post_id : PostIds,
   reply_text : {<<"Looks like rust.">>, <<"Spray copper.">>},
   reply_author : {Ann, DrDot \o <<" ">> \o Ann},
   expert_code : {Absent, <<" ", "EXP-", "0A1B2C", " ">>}]

\* /ask_expert is served while AUTOINCREMENT has ids left for the posts
AskAnExpert ==
  /\ sqlite_sequence["community_posts"] < MaxCommunityIds - 2
  /\ \E data \in AskRequests : ask_expert(data)

SendReply == \E form \in RepliesSent : expert_reply(form)

InitReplies == Start(UsedDb, "ok", "ok")

NextReplies ==
  \/ AskAnExpert
  \/ SendReply
  \/ DeleteCommunityPost

SpecReplies == InitReplies /\ [][NextReplies]_vars

---------------------------------------------------------------------------
(* Claims about the replies *)

\* the step stored the reply of the form on the post of its id, if there
\* is one, and changed nothing else in the posts
Replied(form) ==
  /\ Len(community_posts') = Len(community_posts)
  /\ \A i \in 1..Len(community_posts) :
       IF community_posts[i].id = form.post_id
         THEN /\ community_posts'[i].expert_reply = form.reply_text
              /\ community_posts'[i].reply_author # None
              /\ form.expert_code = Absent =>
                   community_posts'[i].reply_author = <<"A", "n", "n">>
              /\ form.expert_code # Absent =>
                   community_posts'[i].reply_author = <<"D", "r", ".", " ", "R", "a", "o">>
              /\ [community_posts'[i] EXCEPT
                    !.expert_reply = None, !.reply_author = None]
                   = [community_posts[i] EXCEPT
                        !.expert_reply = None, !.reply_author = None]
         ELSE community_posts'[i] = community_posts[i]
  /\ (\A i \in 1..Len(community_posts) :
        community_posts[i].id # form.post_id) =>
       community_posts' = community_posts

\* C26: a community post holds at most one reply, the most recent one:
\* ask_expert creates a post with no expert_reply and no reply_author; each
\* expert_reply for an existing post id replaces that post's expert_reply
\* and reply_author together, whether or not the previous reply was made
\* with a valid expert token, and changes no other post; an expert_reply
\* for a post id that does not exist creates no post and changes none
C26_OneReplyPerPost ==
  /\ [][(response'.route = "ask_expert" /\ response'.status = 200) =>
          /\ Len(community_posts') = Len(community_posts) + 1
          /\ SubSeq(community_posts', 1, Len(community_posts)) = community_posts
          /\ community_posts'[Len(community_posts')].expert_reply = None
          /\ community_posts'[Len(community_posts')].reply_author = None]_vars
  /\ [][response'.route = "expert_reply" =>
          \A form \in RepliesSent : Replied(form) \/ ~expert_reply(form)]_vars

\* the reply of an expert on the first post was replaced by the reply of a
\* member without a token, while the post asked in this run has no reply
C26_Witness ==
  /\ response.route = "expert_reply"
  /\ Len(community_posts) = 2
  /\ Len(expert_tokens) = 1
  /\ community_posts[1].expert_reply = <<"Spray copper.">>
  /\ community_posts[1].reply_author = <<"A", "n", "n">>
  /\ community_posts[2].expert_reply = None
  /\ community_posts[2].reply_author = None

---------------------------------------------------------------------------
(* The seeding: the application started on a new or on a used database, is *)
(* restarted, and fix_db.py is run on its database, while it serves        *)
(* /diagnose and /toggle_theme.                                            *)

\* the value stored under the key, Absent (as a value) when there is none
StoredSetting(s, key) ==
  IF \E i \in 1..Len(s) : s[i].key = key
    THEN s[CHOOSE i \in 1..Len(s) : s[i].key = key].value
    ELSE "<absent>"

get_dark_mode(s) == StoredSetting(s, "dark_mode") = "true"

toggle_theme ==
  LET new_val == IF get_dark_mode(settings) THEN "false" ELSE "true"
  IN  /\ settings' = [i \in 1..Len(settings) |->
                        IF settings[i].key = "dark_mode"
                          THEN [settings[i] EXCEPT !.value = new_val]
                          ELSE settings[i]]
      /\ response' = Response("toggle_theme", 200, "")
      /\ UNCHANGED <<history, feedback, community_posts, expert_tokens,
                     verification_requests, government_schemes, sqlite_sequence,
                     uploads, models, clock>>

\* init_db / fix_database run while the model has ids for the seed records
SeedRunsLeft ==
  sqlite_sequence["government_schemes"] < Len(schemes_data) * (MaxSeedRuns + 1)

\* the application is started again on its database, the model files as
\* they were: init_db(), then load_models()
Restart ==
  LET seeded == init_db(government_schemes,
                        sqlite_sequence["government_schemes"], settings)
      loaded == load_models("ok", "ok")
  IN  /\ SeedRunsLeft
      /\ government_schemes' = seeded.government_schemes
      /\ settings' = seeded.settings
      /\ sqlite_sequence' =
           [sqlite_sequence EXCEPT !["government_schemes"] = seeded.seq]
      /\ disease_model' = loaded.disease_model
      /\ gatekeeper_model' = loaded.gatekeeper_model
      /\ response' = Response("", 0, "")
      /\ UNCHANGED <<history, feedback, community_posts, expert_tokens,
                     verification_requests, uploads, clock>>

\* python fix_db.py
FixDatabase ==
  LET fixed == fix_database(government_schemes,
                            sqlite_sequence["government_schemes"], settings)
  IN  /\ SeedRunsLeft
      /\ government_schemes' = fixed.government_schemes
      /\ settings' = fixed.settings
      /\ sqlite_sequence' =
           [sqlite_sequence EXCEPT !["government_schemes"] = fixed.seq]
      /\ UNCHANGED <<history, feedback, community_posts, expert_tokens,
                     verification_requests, uploads, models, clock, response>>

ToggleTheme == toggle_theme

InitSeed == \E db \in PriorDbs : Start(db, "ok", "ok")

NextSeed ==
  \/ Restart
  \/ FixDatabase
  \/ ToggleTheme
  \/ Diagnose

SpecSeed == InitSeed /\ [][NextSeed]_vars

---------------------------------------------------------------------------
(* Claims about the seeding *)

\* government_schemes holds the seed records, each once, and nothing else
SeedsOnce ==
  /\ Len(government_schemes) = Len(schemes_data)
  /\ \A i \in 1..Len(schemes_data) :
       Count(government_schemes, schemes_data[i]) = 1

\* C10: after init_db (or fix_database) has run any number of times,
\* government_schemes holds exactly the 12 seed records, each once
\* (ignoring ids), and running it leaves the rows of history, feedback,
\* community_posts, expert_tokens and verification_requests and an already
\* stored dark_mode setting unchanged
C10_SeedingIdempotent ==
  /\ [](Len(schemes_data) = 12 /\ SeedsOnce)
  /\ [][(Restart \/ FixDatabase) =>
          /\ UNCHANGED <<history, feedback, community_posts, expert_tokens,
                         verification_requests>>
          /\ StoredSetting(settings, "dark_mode") # "<absent>" =>
               StoredSetting(settings', "dark_mode")
                 = StoredSetting(settings, "dark_mode")]_vars

\* the application has been started for the third time on a database that
\* holds a diagnosis, feedback, an expert and a dark_mode setting that is on
C10_Witness ==
  /\ response.route = ""
  /\ government_schemes[1].id = 2 * Len(schemes_data) + 1
  /\ SeedsOnce
  /\ history # <<>>
  /\ feedback # <<>>
  /\ expert_tokens # <<>>
  /\ StoredSetting(settings, "dark_mode") = "true"

---------------------------------------------------------------------------
(* /schemes *)

\* SQLite's `text LIKE pattern` on token sequences: "%" stands for any run of
\* text (the empty one included), "_" for any one unit of text, and every
\* other token is compared ignoring the case of ASCII letters.  A token is
\* the unit of text here, so "_" is exact for a pattern that asks for any
\* non-empty text.
RECURSIVE Like_case_sensitive(_, _)
Like_case_sensitive(text, pattern) ==
  IF pattern = <<>> THEN text = <<>>
  ELSE IF Head(pattern) = "%"
    THEN \/ Like_case_sensitive(text, Tail(pattern))
         \/ text # <<>> /\ Like_case_sensitive(Tail(text), pattern)
  ELSE /\ text # <<>>
       /\ Head(pattern) = "_" \/ Head(pattern) = Head(text)
       /\ Like_case_sensitive(Tail(text), Tail(pattern))

RECURSIVE Like(_, _)
Like(text, pattern) ==
  IF pattern = <<>> THEN text = <<>>
  ELSE IF Head(pattern) = "%"
    THEN \/ Like(text, Tail(pattern))
         \/ text # <<>> /\ Like(Tail(text), pattern)
  ELSE /\ text # <<>>
       /\ \/ Head(pattern) = "_"
          \/ Lower(<<Head(pattern)>>) = Lower(<<Head(text)>>)
       /\ Like(Tail(text), Tail(pattern))

\* the characters of the deadline texts
DeadlineChars ==
  ("2026-03-31" :> <<"2", "0", "2", "6", "-", "0", "3", "-", "3", "1">> @@
   "2026-12-31" :> <<"2", "0", "2", "6", "-", "1", "2", "-", "3", "1">> @@
   "2026-07-31" :> <<"2", "0", "2", "6", "-", "0", "7", "-", "3", "1">> @@
   "2026-06-30" :> <<"2", "0", "2", "6", "-", "0", "6", "-", "3", "0">> @@
   "2026-10-15" :> <<"2", "0", "2", "6", "-", "1", "0", "-", "1", "5">> @@
   "2026-09-15" :> <<"2", "0", "2", "6", "-", "0", "9", "-", "1", "5">> @@
   "2026-05-20" :> <<"2", "0", "2", "6", "-", "0", "5", "-", "2", "0">> @@
   "2026-08-10" :> <<"2", "0", "2", "6", "-", "0", "8", "-", "1", "0">> @@
   "2026-04-01" :> <<"2", "0", "2", "6", "-", "0", "4", "-", "0", "1">> @@
   "2026-06-15" :> <<"2", "0", "2", "6", "-", "0", "6", "-", "1", "5">> @@
   "2026-11-30" :> <<"2", "0", "2", "6", "-", "1", "1", "-", "3", "0">> @@
   "2028-02-29" :> <<"2", "0", "2", "8", "-", "0", "2", "-", "2", "9">> @@
   "2026-4-1" :> <<"2", "0", "2", "6", "-", "4", "-", "1">> @@
   "2026-02-29" :> <<"2", "0", "2", "6", "-", "0", "2", "-", "2", "9">> @@
   "2026-13-01" :> <<"2", "0", "2", "6", "-", "1", "3", "-", "0", "1">> @@
   "2026-04-011" :> <<"2", "0", "2", "6", "-", "0", "4", "-", "0", "1", "1">> @@
   "31-03-2026" :> <<"3", "1", "-", "0", "3", "-", "2", "0", "2", "6">> @@
   "31 March 2026" :> <<"3", "1", " ", "M", "a", "r", "c", "h", " ",
                        "2", "0", "2", "6">> @@
   "" :> <<>>)

\* datetime.strptime(text, '%Y-%m-%d').date(): four digits, "-", the month
\* (10 to 12, 01 to 09 or 1 to 9), "-", the day (01 to 31 or 1 to 9) and
\* nothing after it, which must name a day of the calendar; ok is FALSE where
\* strptime raises ValueError
strptime(text) ==
  LET c == DeadlineChars[text]
      Digit == ("0" :> 0 @@ "1" :> 1 @@ "2" :> 2 @@ "3" :> 3 @@ "4" :> 4 @@
                "5" :> 5 @@ "6" :> 6 @@ "7" :> 7 @@ "8" :> 8 @@ "9" :> 9)
      IsDigits(i, j) == \A k \in i..j : c[k] \in DOMAIN Digit
      \* a field of one or two digits at i..j; 0 when it is not one
      Field(i, j) ==
        IF ~IsDigits(i, j) THEN 0
        ELSE IF j = i THEN Digit[c[i]]
        ELSE 10 * Digit[c[i]] + Digit[c[j]]
      \* the end of the month field, 0 when the text has no such field
      m_end == IF Len(c) >= 8 /\ c[8] = "-" THEN 7
               ELSE IF Len(c) >= 7 /\ c[7] = "-" THEN 6
               ELSE 0
      shaped == /\ Len(c) >= 8
                /\ IsDigits(1, 4)
                /\ c[5] = "-"
                /\ m_end # 0
                /\ Len(c) - (m_end + 1) \in {1, 2}
      year == 1000 * Digit[c[1]] + 100 * Digit[c[2]] + 10 * Digit[c[3]]
                + Digit[c[4]]
      month == Field(6, m_end)
      day == Field(m_end + 2, Len(c))
      leap == year % 4 = 0 /\ (year % 100 # 0 \/ year % 400 = 0)
      days_in_month == IF month = 2 THEN (IF leap THEN 29 ELSE 28)
                       ELSE IF month \in {4, 6, 9, 11} THEN 30
                       ELSE 31
  IN  IF /\ shaped
         /\ year >= 1
         /\ month \in 1..12
         /\ day \in 1..days_in_month
        THEN [ok |-> TRUE, year |-> year, month |-> month, day |-> day]
        ELSE [ok |-> FALSE, year |-> 0, month |-> 0, day |-> 0]

\* date.toordinal(): the number of the day, 0001-01-01 being day 1
toordinal(date) ==
  LET y == date.year - 1
      leap == date.year % 4 = 0
                /\ (date.year % 100 # 0 \/ date.year % 400 = 0)
      before == <<0, 31, 59, 90, 120, 151, 181, 212, 243, 273, 304, 334>>
  IN  y * 365 + y \div 4 - y \div 100 + y \div 400
        + before[date.month] + (IF date.month > 2 /\ leap THEN 1 ELSE 0)
        + date.day

\* the loop body of schemes_page: the row with days_left, is_urgent and
\* is_expired
SchemeView_urgent_from_one(s, today) ==
  LET deadline_date == strptime(s.deadline)
      days_left == toordinal(deadline_date) - toordinal(today)
  IN  IF deadline_date.ok
        THEN [scheme |-> s, days_left |-> days_left,
              is_urgent |-> 0 < days_left /\ days_left <= 30,
              is_expired |-> days_left < 0]
        ELSE [scheme |-> s, days_left |-> 0, is_urgent |-> FALSE,
              is_expired |-> FALSE]

SchemeView(s, today) ==
  LET deadline_date == strptime(s.deadline)
      days_left == toordinal(deadline_date) - toordinal(today)
  IN  IF deadline_date.ok
        THEN [scheme |-> s, days_left |-> days_left,
              is_urgent |-> 0 <= days_left /\ days_left <= 30,
              is_expired |-> days_left < 0]
        ELSE [scheme |-> s, days_left |-> 0, is_urgent |-> FALSE,
              is_expired |-> FALSE]

\* SELECT * FROM t WHERE 1=1 [AND ...state...] [AND ...crop...]
RECURSIVE SelectSchemes(_, _, _)
SelectSchemes(t, selected_state, selected_crop) ==
  LET Eligible(selected, eligible) ==
        \/ selected = <<"All">>
        \/ eligible = <<"All">>
        \/ Like(eligible, <<"%">> \o selected \o <<"%">>)
  IN  IF t = <<>> THEN <<>>
      ELSE (IF /\ Eligible(selected_state, Head(t).eligible_state)
               /\ Eligible(selected_crop, Head(t).eligible_crop)
              THEN <<Head(t)>> ELSE <<>>)
             \o SelectSchemes(Tail(t), selected_state, selected_crop)

\* the selection: 'All' unless the request is a POST whose form has the field
Selected(req, field) ==
  IF req.method = "POST" /\ field # Absent THEN field ELSE <<"All">>

\* /schemes, GET or POST, on the day today
schemes_page(req, today) ==
  LET selected_state == Selected(req, req.state)
      selected_crop == Selected(req, req.crop)
      schemes == SelectSchemes(government_schemes, selected_state,
                               selected_crop)
  IN  /\ response' =
           [Response("schemes_page", 200, "") EXCEPT
              !.body = [schemes |-> [i \in 1..Len(schemes) |->
                                       SchemeView(schemes[i], today)],
                        dark_mode |-> get_dark_mode(settings),
                        selected_state |-> selected_state,
                        selected_crop |-> selected_crop,
                        today |-> today]]
      /\ UNCHANGED <<tables, uploads, models, clock>>

\* what the state and crop fields of the form can hold
SelectedStates ==
  {Absent, <<"All">>, <<"Punjab">>, <<"Assam">>, <<"Tamil Nadu">>, <<"_">>}

SelectedCrops ==
  {Absent, <<"All">>, <<"Tomato">>, <<"tomato">>, <<"Apple">>, <<"%">>}

\* a GET carries no form; a link may still carry fields, which are ignored
SchemeRequests ==
  {[method |-> "GET", state |-> Absent, crop |-> Absent],
   [method |-> "GET", state |-> <<"Punjab">>, crop |-> <<"Apple">>]}
    \cup {[method |-> "POST", state |-> s, crop |-> c] :
            s \in SelectedStates, c \in SelectedCrops}

\* datetime.now().date()
Todays ==
  {[year |-> 2026, month |-> 3, day |-> 1],
   [year |-> 2026, month |-> 4, day |-> 1],
   [year |-> 2026, month |-> 11, day |-> 2]}

SchemesPage ==
  \E req \in SchemeRequests, today \in Todays :
    schemes_page(req, today)

\* the loop body of schemes_page on a row with any deadline text
SchemeDeadline ==
  \E text \in DOMAIN DeadlineChars, today \in Todays :
    /\ response' =
         [Response("SchemeView", 0, "") EXCEPT
            !.body = [row |-> SchemeView([deadline |-> text], today),
                      today |-> today]]
    /\ UNCHANGED <<tables, uploads, models, clock>>

InitSchemes == Start(UsedDb, "ok", "ok")

NextSchemes ==
  \/ SchemesPage
  \/ SchemeDeadline

SpecSchemes == InitSchemes /\ [][NextSchemes]_vars

---------------------------------------------------------------------------
(* Claims about /schemes *)

\* the ids of the rows that schemes_page rendered
Returned(r) == {r.body.schemes[i].scheme.id : i \in 1..Len(r.body.schemes)}

\* the ids of the rows of t that pass the test
Ids(t, Passes(_)) == {t[i].id : i \in {j \in 1..Len(t) : Passes(t[j])}}

\* eligible holds selected somewhere, letter for letter
HasSubstring(eligible, selected) ==
  \E i \in 0..(Len(eligible) - Len(selected)) :
    \A k \in 1..Len(selected) : eligible[i + k] = selected[k]

\* eligible holds selected somewhere when the case of ASCII letters is
\* ignored, a "_" of selected stands for any one unit of text and a "%" of
\* selected for any run of text: p[k] is the place in eligible where the
\* first k tokens of selected end
HasPattern(eligible, selected) ==
  \E p \in [0..Len(selected) -> 0..Len(eligible)] :
    \A k \in 1..Len(selected) :
      IF selected[k] = "%" THEN p[k] >= p[k - 1]
      ELSE /\ p[k] = p[k - 1] + 1
           /\ \/ selected[k] = "_"
              \/ Lower(<<selected[k]>>) = Lower(<<eligible[p[k]]>>)

\* HasPattern, worked out once for the texts a form can select and the
\* eligible texts of the seed records
Selections == (SelectedStates \cup SelectedCrops) \ {Absent}

PatternTable ==
  [selected \in Selections |->
     {eligible \in {schemes_data[i].eligible_state : i \in 1..Len(schemes_data)}
                     \cup
                   {schemes_data[i].eligible_crop : i \in 1..Len(schemes_data)} :
        HasPattern(eligible, selected)}]

\* schemes_page(req, today) has just run; the conjuncts before the last
\* follow from it and are the quick ones to test
Rendered(req, today) ==
  /\ response'.route = "schemes_page"
  /\ response'.body.today = today
  /\ response'.body.selected_state = Selected(req, req.state)
  /\ response'.body.selected_crop = Selected(req, req.crop)
  /\ schemes_page(req, today)

\* C11 as stated: with state and crop both 'All' (or on GET) every scheme is
\* returned; otherwise a scheme is returned exactly when, for each of state
\* and crop that is selected, its eligible text is 'All' or contains the
\* selected text as a substring
C11_SubstringFilter ==
  [][\A req \in SchemeRequests, today \in Todays :
       Rendered(req, today) =>
         LET state == response'.body.selected_state
             crop == response'.body.selected_crop
             Passes(s) ==
               /\ \/ state = <<"All">>
                  \/ s.eligible_state = <<"All">>
                  \/ HasSubstring(s.eligible_state, state)
               /\ \/ crop = <<"All">>
                  \/ s.eligible_crop = <<"All">>
                  \/ HasSubstring(s.eligible_crop, crop)
         IN  /\ req.method = "GET" => state = <<"All">> /\ crop = <<"All">>
             /\ Returned(response') = Ids(government_schemes, Passes)]_vars

\* C11, amended: with state and crop both 'All' (or on GET) every scheme is
\* returned; otherwise a scheme is returned exactly when, for each of state
\* and crop that is selected, its eligible text is 'All' or matches the
\* SQLite pattern %selected%: it contains the selected text ignoring the
\* case of ASCII letters, "_" in the selected text standing for any one
\* character and "%" for any run of characters
C11_LikeFilter ==
  [][\A req \in SchemeRequests, today \in Todays :
       Rendered(req, today) =>
         LET state == response'.body.selected_state
             crop == response'.body.selected_crop
             Passes(s) ==
               /\ \/ state = <<"All">>
                  \/ s.eligible_state = <<"All">>
                  \/ s.eligible_state \in PatternTable[state]
               /\ \/ crop = <<"All">>
                  \/ s.eligible_crop = <<"All">>
                  \/ s.eligible_crop \in PatternTable[crop]
         IN  /\ req.method = "GET" => state = <<"All">> /\ crop = <<"All">>
             /\ Returned(response') = Ids(government_schemes, Passes)]_vars

\* Assam and tomato were selected: the two schemes for every state that take
\* tomato or every crop, and the two schemes of Assam, are returned
C11_Witness ==
  /\ response.route = "schemes_page"
  /\ response.body.selected_state = <<"Assam">>
  /\ response.body.selected_crop = <<"tomato">>
  /\ Len(response.body.schemes) = 4
  /\ \E i \in 1..4 :
       /\ response.body.schemes[i].scheme.eligible_state # <<"All">>
       /\ Contains(response.body.schemes[i].scheme.eligible_crop, <<"Tomato">>)

\* the days of the calendar in the years of the deadline texts
CalendarDays ==
  {d \in [year : 2026..2028, month : 1..12, day : 1..31] :
     d.day <= (IF d.month = 2 THEN (IF d.year = 2028 THEN 29 ELSE 28)
               ELSE IF d.month \in {4, 6, 9, 11} THEN 30
               ELSE 31)}

\* day a is earlier than day b
Earlier(a, b) ==
  \/ a.year < b.year
  \/ a.year = b.year /\ a.month < b.month
  \/ a.year = b.year /\ a.month = b.month /\ a.day < b.day

\* the days from today to the deadline of each text that parses, counted on
\* the calendar; negative when the deadline has passed
DaysTo ==
  [today \in Todays |->
     [text \in {t \in DOMAIN DeadlineChars : strptime(t).ok} |->
        LET deadline == [year |-> strptime(text).year,
                         month |-> strptime(text).month,
                         day |-> strptime(text).day]
        IN  IF Earlier(deadline, today)
              THEN 0 - Cardinality({d \in CalendarDays :
                                      /\ ~Earlier(d, deadline)
                                      /\ Earlier(d, today)})
              ELSE Cardinality({d \in CalendarDays :
                                  /\ ~Earlier(d, today)
                                  /\ Earlier(d, deadline)})]]

\* the rows that the last response decorated
Views(r) ==
  IF r.route = "schemes_page" THEN Range(r.body.schemes)
  ELSE IF r.route = "SchemeView" THEN {r.body.row}
  ELSE {}

\* C20: for every scheme that schemes_page returns, days_left is the deadline
\* date minus today's date in days, is_urgent holds exactly when
\* 0 <= days_left <= 30 and is_expired exactly when days_left < 0, so no
\* scheme is both; a scheme whose deadline does not parse gets days_left 0
\* and is neither urgent nor expired
C20_DaysLeft ==
  \A v \in Views(response) :
    IF strptime(v.scheme.deadline).ok
      THEN /\ v.days_left = DaysTo[response.body.today][v.scheme.deadline]
           /\ v.is_urgent <=> (0 <= v.days_left /\ v.days_left <= 30)
           /\ v.is_expired <=> v.days_left < 0
           /\ ~(v.is_urgent /\ v.is_expired)
      ELSE /\ v.days_left = 0
           /\ ~v.is_urgent
           /\ ~v.is_expired

\* on 2026-04-01 every scheme was returned: the one due that day is urgent
\* with no day left, the one due the day before is expired, and the one due
\* in 31 days or more is neither
C20_Witness ==
  /\ response.route = "schemes_page"
  /\ Len(response.body.schemes) = Len(schemes_data)
  /\ \E v \in Views(response) : v.days_left = 0 /\ v.is_urgent /\ ~v.is_expired
  /\ \E v \in Views(response) : v.days_left = -1 /\ v.is_expired /\ ~v.is_urgent
  /\ \E v \in Views(response) : v.days_left > 30 /\ ~v.is_urgent /\ ~v.is_expired

---------------------------------------------------------------------------
(* GET /history *)

\* the place of a timestamp among the timestamps of the model when they are
\* compared as SQLite compares them: NULL first, then text in byte order
TimestampRank(timestamp) ==
  IF timestamp = None THEN 0
  ELSE IF timestamp = <<"2026-10-30 07:00:00">> THEN 1
  ELSE IF timestamp = <<"2026-10-31 09:30:00">> THEN 2
  ELSE 3

\* ORDER BY of history_page: row a may stand before row b
InOrder(sort_by, a, b) ==
  IF sort_by = "oldest" THEN TimestampRank(a.timestamp) <= TimestampRank(b.timestamp)
  ELSE IF sort_by = "highest_confidence" THEN a.confidence >= b.confidence
  ELSE IF sort_by = "lowest_confidence" THEN a.confidence <= b.confidence
  ELSE TimestampRank(a.timestamp) >= TimestampRank(b.timestamp)

\* the entry that history_page builds for a row
HistoryEntry(row) ==
  LET diag_details == JsonLoads(row.full_details)
      lookup_key == IF diag_details.disease_key_for_lookup = Absent
                      THEN <<"healthy">>
                      ELSE diag_details.disease_key_for_lookup
  IN  [image_path |-> row.image_filename,
       diagnosis |-> diag_details,
       timestamp |-> row.timestamp,
       info |-> IF InfoGet(lookup_key) # None THEN InfoGet(lookup_key)
                ELSE InfoGet(<<"healthy">>),
       treatment_suggestions |->
         IF TreatmentsGet(lookup_key) # None THEN TreatmentsGet(lookup_key)
         ELSE TreatmentsGet(<<"healthy">>)]

\* /history?sort_by=..&filter_crop=..; order is the order in which SQLite
\* returns the selected rows, which ORDER BY fixes up to rows of equal keys
history_page(sort_by, filter_crop, order) ==
  LET selected == {i \in 1..Len(history) :
                     \/ filter_crop = <<"all">>
                     \/ /\ history[i].crop_type # None
                        /\ Lower(history[i].crop_type) = Lower(filter_crop)}
  IN  /\ Len(order) = Cardinality(selected)
      /\ Range(order) = selected
      /\ \A i, j \in 1..Len(order) :
           i < j => InOrder(sort_by, history[order[i]], history[order[j]])
      /\ response' =
           IF InfoGet(<<"healthy">>) = None \/ TreatmentsGet(<<"healthy">>) = None
             THEN Response("history_page", 500, "exception")
             ELSE [Response("history_page", 200, "") EXCEPT
                     !.body = [history |-> [i \in 1..Len(order) |->
                                              HistoryEntry(history[order[i]])],
                               dark_mode |-> get_dark_mode(settings)]]
      /\ UNCHANGED <<tables, uploads, models, clock>>

---------------------------------------------------------------------------
(* The lookups: the application started on a used database; files of one   *)
(* item are imported, whose lookup key is a label with an entry, a label   *)
(* without one, no label at all, null or missing; /history and             *)
(* /get_history_details are served.                                        *)

LookupItems ==
  << [key |-> <<"\"">> \o class_labels[1] \o <<"\"">>, crop |-> "Apple",
      confidence |-> "97.3", timestamp |-> <<"\"", "2026-10-30 07:00:00", "\"">>,
      name |-> "a.png"],
     [key |-> <<"\"">> \o class_labels[4] \o <<"\"">>, crop |-> "Apple",
      confidence |-> "88.8", timestamp |-> <<"\"", "2026-10-31 09:30:00", "\"">>,
      name |-> "b.png"],
     [key |-> Absent, crop |-> "Corn",
      confidence |-> "72.5", timestamp |-> <<"\"", "2026-10-30 07:00:00", "\"">>,
      name |-> "c.png"],
     [key |-> <<"null">>, crop |-> "Corn",
      confidence |-> "72.5", timestamp |-> <<"null">>,
      name |-> "d.png"],
     [key |-> <<"\"", "Banana", "_", "wilt", "\"">>, crop |-> "corn",
      confidence |-> "45.2", timestamp |-> <<"\"", "2026-10-31 09:30:00", "\"">>,
      name |-> "e.png"] >>

\* the export file that holds the item
LookupFile(item) ==
  [parses |-> TRUE,
   items |-> << [diagnosis |->
                   << <<"crop_type", <<"\"", item.crop, "\"">> >>,
                      <<"disease_name", <<"\"", "Common rust", "\"">> >> >>
                   \o (IF item.key = Absent THEN <<>>
                       ELSE << <<"disease_key_for_lookup", item.key>> >>)
                   \o << <<"confidence", <<"\"", item.confidence, "%", "\"">> >> >>,
                 timestamp |-> item.timestamp,
                 image_filename |-> <<"\"", item.name, "\"">>,
                 image_path |-> Absent] >>]

ImportLookup ==
  /\ sqlite_sequence["history"] < MaxLookupId
  /\ \E i \in 1..Len(LookupItems), overwrite \in BOOLEAN :
       import_history([has_file |-> TRUE, file |-> LookupFile(LookupItems[i]),
                       overwrite |-> overwrite])

\* every order of at most n rows
Orders(n) ==
  UNION {{order \in [1..k -> 1..n] : \A i, j \in 1..k : order[i] = order[j] => i = j} :
           k \in 0..n}

HistoryPage ==
  \E sort_by \in {"recent", "oldest", "highest_confidence", "lowest_confidence"},
     filter_crop \in {<<"all">>, <<"Corn">>},
     order \in Orders(Len(history)) :
    history_page(sort_by, filter_crop, order)

LookupDetails ==
  \E i \in 1..Len(LookupItems) :
    get_history_details(<<"static", "/", "uploads", "/", LookupItems[i].name>>)

InitLookup == Start(UsedDb, "ok", "ok")

NextLookup ==
  \/ ImportLookup
  \/ HistoryPage
  \/ LookupDetails

SpecLookup == InitLookup /\ [][NextLookup]_vars

---------------------------------------------------------------------------
(* The images: the application started on a used database, serving         *)
(* /diagnose, /ask_expert and the routes that delete records.              *)

InitImages == Start(UsedDb, "ok", "ok")

NextImages ==
  \/ Diagnose
  \/ AskExpert
  \/ DeleteHistoryItem
  \/ ClearAllHistory
  \/ DeleteCommunityPost

SpecImages == InitImages /\ [][NextImages]_vars

---------------------------------------------------------------------------
(* Claims about the images *)

\* the file is in the uploads folder and is the image of a history record
\* and of a community post
Shared(name) ==
  /\ name \in DOMAIN uploads
  /\ \E i \in 1..Len(history) : history[i].image_filename = name
  /\ \E i \in 1..Len(community_posts) : community_posts[i].image_filename = name

\* C14: no deletion of records removes an image: delete_history_item,
\* clear_all_history and delete_community_post change only rows of their
\* table and leave every file of the uploads folder in place, so an image
\* shared by a history record and a community post stays available to the
\* one after the other is deleted
C14_DeletionsKeepImages ==
  /\ [][(DeleteHistoryItem \/ ClearAllHistory) =>
          /\ uploads' = uploads
          /\ UNCHANGED <<other_tables, sqlite_sequence>>
          /\ Range(history') \subseteq Range(history)]_vars
  /\ [][DeleteCommunityPost =>
          /\ uploads' = uploads
          /\ UNCHANGED <<history, feedback, settings, expert_tokens,
                         verification_requests, government_schemes,
                         sqlite_sequence>>
          /\ Range(community_posts') \subseteq Range(community_posts)]_vars
  /\ [][\A name \in DOMAIN uploads :
          (/\ Shared(name)
           /\ DeleteHistoryItem \/ ClearAllHistory \/ DeleteCommunityPost) =>
            /\ name \in DOMAIN uploads'
            /\ uploads'[name] = uploads[name]]_vars

\* the history record of a diagnosed upload was deleted; the community post
\* that shares its image is there, and so is the file
C14_Witness ==
  /\ response.route = "delete_history_item"
  /\ history = <<>>
  /\ \E i \in 1..Len(community_posts) :
       /\ community_posts[i].image_filename \in DOMAIN uploads
       /\ community_posts[i].image_filename
            = SavedName([filename |-> <<"my", "_", "leaf.jpg">>])

---------------------------------------------------------------------------
(* The labels: diagnose_disease on every class that the disease model can  *)
(* predict, with confidences on both sides of 50 percent.                  *)

\* np.max(predictions) * 100, in hundredths of a percent
Confidences == {9734, 5000, 4996, 4524}

\* diagnose_disease past the prediction: the dict for a class and a
\* confidence
DiagnoseDisease ==
  \E idx \in 0..(Len(class_labels) - 1), confidence \in Confidences :
    /\ response' =
         [Response("diagnose_disease", 0, "") EXCEPT
            !.diagnosis = DiagnosisOf(idx, confidence),
            !.body = [idx |-> idx, confidence |-> confidence]]
    /\ UNCHANGED <<tables, uploads, models, clock>>

InitLabels == Start(FreshDb, "ok", "ok")

NextLabels == DiagnoseDisease

SpecLabels == InitLabels /\ [][NextLabels]_vars

---------------------------------------------------------------------------
(* Claims about the labels and the static dictionaries *)

\* C15: crop_type is the part of the predicted label before its first
\* underscore; disease_name is 'Healthy' when the label contains 'healthy'
\* and otherwise the label with its underscores replaced by spaces;
\* disease_key_for_lookup is the full label; the note is 'Low confidence.'
\* exactly when the confidence percentage is below 50 and empty otherwise
C15_DiagnosisRecord ==
  response.route = "diagnose_disease" =>
    LET label == class_labels[response.body.idx + 1]
        diag == response.diagnosis
    IN  /\ \E k \in 1..Len(label) :
             /\ label[k] = "_"
             /\ \A j \in 1..(k - 1) : label[j] # "_"
             /\ diag.crop_type = SubSeq(label, 1, k - 1)
        /\ IF \E i \in 1..Len(label) : label[i] \in {"healthy", "Healthy", "HEALTHY"}
             THEN diag.disease_name = <<"Healthy">>
             ELSE diag.disease_name =
                    [i \in 1..Len(label) |-> IF label[i] = "_" THEN " " ELSE label[i]]
        /\ diag.disease_key_for_lookup = label
        /\ diag.note = <<"Low confidence.">> <=> response.body.confidence < 5000
        /\ diag.note = <<"">> <=> response.body.confidence >= 5000

\* Tomato_healthy at 49.96 percent: 'Healthy' of crop Tomato, shown as 50.0%
\* and noted as of low confidence
C15_Witness ==
  /\ response.route = "diagnose_disease"
  /\ response.body = [idx |-> 37, confidence |-> 4996]
  /\ response.diagnosis.crop_type = <<"Tomato">>
  /\ response.diagnosis.disease_name = <<"Healthy">>
  /\ response.diagnosis.confidence = <<"50.0", "%">>
  /\ response.diagnosis.note = <<"Low confidence.">>

\* C16: the label chosen for a predicted class index is the label that
\* class_labels maps to that index: class_labels is a bijection from its 38
\* labels onto 0..37 whose insertion order is the order of its values, so
\* the key at position idx has value idx, and every key of disease_info and
\* of treatment_suggestions_data other than 'healthy' is one of the labels
C16_LabelOfIndex ==
  /\ Len(class_labels) = 38
  /\ Len(class_indices) = 38
  /\ \A i, j \in 1..38 : class_labels[i] = class_labels[j] => i = j
  /\ Range(class_indices) = 0..37
  /\ \A i \in 1..38 : class_indices[i] = i - 1
  /\ Range(disease_info) \ {<<"healthy">>} \subseteq Range(class_labels)
  /\ DOMAIN treatment_suggestions_data \ {<<"healthy">>}
       \subseteq Range(class_labels)
  /\ response.route = "diagnose_disease" =>
       \E i \in 1..38 :
         /\ class_labels[i] = response.diagnosis.disease_key_for_lookup
         /\ class_indices[i] = response.body.idx

\* class 21 was predicted and Potato_Late_blight, whose value is 21, chosen
C16_Witness ==
  /\ response.route = "diagnose_disease"
  /\ response.body.idx = 21
  /\ response.diagnosis.disease_key_for_lookup
       = <<"Potato", "_", "Late", "_", "blight">>
  /\ response.diagnosis.disease_key_for_lookup \in Range(disease_info)

\* info and treatments are what the claim asks for a record of that lookup
\* key (Absent when the record has none): no null, the entry of the key
\* when the dictionary has one, the generic entry otherwise
Looked(key, info, treatments) ==
  /\ info # None
  /\ treatments # None
  /\ info = IF key \in Range(disease_info) THEN key ELSE <<"healthy">>
  /\ treatments = IF key \in DOMAIN treatment_suggestions_data
                    THEN treatment_suggestions_data[key]
                    ELSE treatment_suggestions_data[<<"healthy">>]

---------------------------------------------------------------------------
(* POST /check_weather_risk: the weather of a city, as OpenWeatherMap      *)
(* reports it, and the disease risk read from it. Temperatures are in      *)
(* tenths of a degree, conditions are written letter by letter.            *)

\* str.lower() of the letters the conditions use
LowerLetters ==
  ("L" :> "l" @@ "M" :> "m" @@ "R" :> "r")

\* condition.lower()
ConditionLower(s) ==
  [i \in 1..Len(s) |-> IF s[i] \in DOMAIN LowerLetters THEN LowerLetters[s[i]] ELSE s[i]]

\* ['rain', 'drizzle', 'mist', 'thunderstorm']
MoistureWords ==
  {<<"r", "a", "i", "n">>, <<"d", "r", "i", "z", "z", "l", "e">>,
   <<"m", "i", "s", "t">>,
   <<"t", "h", "u", "n", "d", "e", "r", "s", "t", "o", "r", "m">>}

\* the risk level with the heat looked at before the moisture
RiskLevel_heat_first(temp, humidity, condition) ==
  IF temp > 300 /\ humidity < 50
    THEN "Medium (Pest Risk)"
  ELSE IF \/ humidity > 70
          \/ \E x \in MoistureWords : Contains(ConditionLower(condition), x)
    THEN "HIGH (Fungal & Bacterial Risk)"
  ELSE IF temp > 250
    THEN "Medium (Viral Vector Activity)"
  ELSE IF temp < 100
    THEN "Medium (Cold Stress)"
  ELSE "Low"

\* risk_level: the if / elif chain of check_weather_risk
RiskLevel(temp, humidity, condition) ==
  IF \/ humidity > 70
     \/ \E x \in MoistureWords : Contains(ConditionLower(condition), x)
    THEN "HIGH (Fungal & Bacterial Risk)"
  ELSE IF temp > 300 /\ humidity < 50
    THEN "Medium (Pest Risk)"
  ELSE IF temp > 250
    THEN "Medium (Viral Vector Activity)"
  ELSE IF temp < 100
    THEN "Medium (Cold Stress)"
  ELSE "Low"

\* alert_message: which text, and the values written into it
AlertMessage(temp, humidity, condition) ==
  LET risk_level == RiskLevel(temp, humidity, condition)
  IN  IF risk_level = "HIGH (Fungal & Bacterial Risk)"
        THEN [text |-> "High Moisture", humidity |-> humidity, condition |-> condition]
      ELSE IF risk_level = "Medium (Pest Risk)"
        THEN [text |-> "Hot & Dry conditions", temp |-> temp, humidity |-> humidity]
      ELSE IF risk_level = "Medium (Viral Vector Activity)"
        THEN [text |-> "Warm temperatures", temp |-> temp]
      ELSE IF risk_level = "Medium (Cold Stress)"
        THEN [text |-> "Temperatures are low."]
      ELSE [text |-> "Weather appears favorable for crop growth."]

\* check_weather_risk for the city of the request and what requests.get
\* does: it raises, it answers with another status than 200, it answers
\* with a body that lacks 'main', or it answers with the weather
check_weather_risk(city, reply) ==
  /\ response' =
       IF city = None \/ city = <<>>
         THEN Response("check_weather_risk", 200, "Please enter a city name.")
       ELSE IF reply.kind = "raises" \/ reply.kind = "no_main"
         THEN Response("check_weather_risk", 200, "Could not fetch weather data.")
       ELSE IF reply.kind = "not_found"
         THEN Response("check_weather_risk", 200, "City not found!")
       ELSE [Response("check_weather_risk", 200, "") EXCEPT
               !.calls = <<"requests.get">>,
               !.body = [city |-> city,
                         temp |-> reply.temp,
                         humidity |-> reply.humidity,
                         condition |-> reply.condition,
                         risk_level |-> RiskLevel(reply.temp, reply.humidity,
                                                  reply.condition),
                         alert_message |-> AlertMessage(reply.temp, reply.humidity,
                                                        reply.condition)]]
  /\ UNCHANGED <<tables, uploads, models, clock>>

\* temperatures on both sides of 10, 25 and 30 degrees, in tenths
Temps == {99, 100, 250, 251, 300, 301}

\* humidities on both sides of 50 and 70 percent
Humidities == {49, 50, 70, 71}

\* descriptions of the weather: with and without the words of the list, in
\* capitals, and with a word of the list inside another word
Conditions ==
  {<<"c", "l", "e", "a", "r", " ", "s", "k", "y">>,
   <<"h", "a", "z", "e">>,
   <<"l", "i", "g", "h", "t", " ", "r", "a", "i", "n">>,
   <<"L", "i", "g", "h", "t", " ", "R", "a", "i", "n">>,
   <<"d", "r", "i", "z", "z", "l", "e">>,
   <<"M", "i", "s", "t">>,
   <<"t", "h", "u", "n", "d", "e", "r", "s", "t", "o", "r", "m">>,
   <<"g", "r", "a", "i", "n", " ", "d", "u", "s", "t">>}

\* what requests.get does
Replies ==
  [kind : {"ok"}, temp : Temps, humidity : Humidities, condition : Conditions]
  \cup [kind : {"raises", "not_found", "no_main"}, temp : {250}, humidity : {50},
        condition : {<<"h", "a", "z", "e">>}]

\* request.json.get('city')
Cities == {None, <<>>, <<"Pune">>}

CheckWeatherRisk ==
  \E city \in Cities, reply \in Replies : check_weather_risk(city, reply)

---------------------------------------------------------------------------
(* The weather: the application started on a new database, serving         *)
(* /check_weather_risk.                                                    *)

InitWeather == Start(FreshDb, "ok", "ok")

NextWeather == CheckWeatherRisk

SpecWeather == InitWeather /\ [][NextWeather]_vars

---------------------------------------------------------------------------
(* Claims about /check_weather_risk *)

\* the moisture trigger: humidity above 70, or one of the four words in the
\* condition, capitals counting as their small letters
Moist(b) ==
  \/ b.humidity > 70
  \/ \E i \in 1..Len(b.condition), x \in MoistureWords :
       /\ i + Len(x) - 1 <= Len(b.condition)
       /\ \A j \in 1..Len(x) :
            \/ b.condition[i + j - 1] = x[j]
            \/ /\ b.condition[i + j - 1] \in DOMAIN LowerLetters
               /\ LowerLetters[b.condition[i + j - 1]] = x[j]

---------------------------------------------------------------------------
(* The experts: the application started on a used database, serving        *)
(* /apply_for_expert, /approve_expert and /generate_expert_key.            *)

\* the applications that the clients send: a doctor, a shop owner, one
\* without a role and one without a name
ExpertApplications ==
  {[name |-> <<"L", "e", "e">>, email |-> <<"lee@example.org">>,
    qualification |-> <<"MBBS">>, role |-> Doctor],
   [name |-> <<"L", "e", "e">>, email |-> <<"lee@example.org">>,
    qualification |-> <<"Agri shop">>, role |-> <<"Shop Owner">>],
   [name |-> <<"L", "e", "e">>, email |-> <<"lee@example.org">>,
    qualification |-> <<"Agri shop">>, role |-> Absent],
   [name |-> Absent, email |-> <<"lee@example.org">>,
    qualification |-> <<"Agri shop">>, role |-> Doctor]}

\* what secrets.token_hex(3) returns
Hexes == {"0a1b2c", "c0ffee", "123456"}

\* the ids that expert_tokens and verification_requests have handed out
ExpertIds ==
  sqlite_sequence["expert_tokens"] + sqlite_sequence["verification_requests"]

ApplyAsExpert ==
  /\ ExpertIds < MaxExpertIds
  /\ \E form \in ExpertApplications : apply_for_expert(form)

ApproveAnExpert ==
  /\ ExpertIds < MaxExpertIds
  /\ \E req_id \in RequestIds, hex \in Hexes, smtp \in SmtpOutcomes :
       approve_expert(req_id, hex, smtp)

GenerateAKey ==
  /\ ExpertIds < MaxExpertIds
  /\ \E hex \in {"a1b2c3d4"} : generate_expert_key(Ann, hex)

InitExperts == Start(UsedDb, "ok", "ok")

NextExperts ==
  \/ ApplyAsExpert
  \/ ApproveAnExpert
  \/ GenerateAKey

SpecExperts == InitExperts /\ [][NextExperts]_vars

---------------------------------------------------------------------------
(* Claims about the approval of experts *)

\* the row is a token of approve_expert for the request: 'EXP-' and six
\* hex characters in capitals, for 'Dr. <name>' or 'Expert <name> (<role>)'
TokenFor(row, req) ==
  /\ Len(row.token) = 2
  /\ row.token[1] = "EXP-"
  /\ row.token[2] \in {"0A1B2C", "C0FFEE", "123456"}
  /\ row.assigned_to_name =
       IF req.role = <<"D", "o", "c", "t", "o", "r">>
         THEN <<"D", "r", ".", " ">> \o req.name
         ELSE <<"E", "x", "p", "e", "r", "t", " ">> \o req.name
                \o <<" ", "(">> \o req.role \o <<")">>

C22_OneTokenPerRequest ==
  [][\A req_id \in RequestIds, hex \in Hexes, smtp \in SmtpOutcomes :
       (/\ response'.route = "approve_expert"
        /\ \E i \in 1..Len(verification_requests) :
             /\ verification_requests[i].id = req_id
             /\ verification_requests[i].status = <<"approved">>
        /\ approve_expert(req_id, hex, smtp)) =>
         expert_tokens' = expert_tokens]_vars

\* C23: the approval is committed before the e-mail is attempted and an
\* e-mail failure does not undo it: when send_token_email returns False,
\* the new token row and the 'approved' status of the request remain in the
\* database and the response reports 'Database updated, but Email failed';
\* send_token_email never raises to its caller, whatever the server does
C23_EmailFailureKeepsApproval ==
  [][\A req_id \in RequestIds, hex \in Hexes, smtp \in SmtpOutcomes :
       (/\ response'.route = "approve_expert"
        /\ "send_token_email" \in Range(response'.calls)
        /\ approve_expert(req_id, hex, smtp)) =>
         /\ \E i, j \in 1..Len(response'.calls) :
              /\ i < j
              /\ response'.calls[i] = "commit"
              /\ response'.calls[j] = "send_token_email"
         /\ response'.status = 200
         /\ smtp # "sent" =>
              /\ response'.body.status_msg =
                   "Database updated, but Email failed (Check console logs)."
              /\ Len(expert_tokens') = Len(expert_tokens) + 1
              /\ expert_tokens'[Len(expert_tokens')].token = response'.body.token
              /\ \E i \in 1..Len(verification_requests') :
                   /\ verification_requests'[i].id = req_id
                   /\ verification_requests'[i].status = <<"approved">>
         /\ smtp = "sent" =>
              response'.body.status_msg = "Email Sent Successfully!"]_vars

\* the e-mail to a shop owner who applied in this run failed: the request
\* is approved and the token of the response is stored
C23_Witness ==
  /\ response.route = "approve_expert"
  /\ "send_token_email" \in Range(response.calls)
  /\ response.body.status_msg =
       "Database updated, but Email failed (Check console logs)."
  /\ Len(verification_requests) = 3
  /\ verification_requests[3].status = <<"approved">>
  /\ verification_requests[3].role = <<"Shop Owner">>
  /\ expert_tokens[Len(expert_tokens)].token = response.body.token

---------------------------------------------------------------------------
(* The export: the application started on a used database, serving         *)
(* /diagnose, /delete_history_item and /export_all_history, with either    *)
(* outcome of the removal of the temporary file.                           *)

ExportAndRemove == \E removal \in Removals : export_all_history(removal)

InitExport == Start(UsedDb, "ok", "ok")

NextExport ==
  \/ Diagnose
  \/ DeleteHistoryItem
  \/ ExportAndRemove

SpecExport == InitExport /\ [][NextExport]_vars

---------------------------------------------------------------------------
(* Claims about the export *)

\* C27: export_all_history is read-only with respect to the application
\* state: it changes no table, and the temporary export_<timestamp>.json
\* file it writes into the uploads folder is removed once the response has
\* been produced, so after the request the uploads folder holds the same
\* files as before it
C27_ExportReadOnly ==
  [][response'.route = "export_all_history" =>
       /\ UNCHANGED tables
       /\ uploads' = uploads]_vars

=============================================================================
